---- MODULE Spec2Model ----
(***************************************************************************)
(* Word Duel: the escrow settlement state machine and the server-side      *)
(* word submission of WordDuelApp/functions/src/index.ts, together with    *)
(* the client-side game lifecycle writes of                                 *)
(* WordDuelApp/src/services/multiplayer.ts.                                 *)
(*                                                                         *)
(* Every handler is a sequence of awaits on the Realtime Database and on   *)
(* the chain.  One action of the model is one such await together with the *)
(* local computation that follows it, so concurrent invocations interleave *)
(* exactly at the points where the code yields.                            *)
(*                                                                         *)
(* Amounts.  Lamports are integers.  betAmount is a decimal number of SOL; *)
(* it is carried as an integer number of tenths of a lamport, so that      *)
(* betAmount * LAMPORTS_PER_SOL need not be whole and Math.round has work  *)
(* to do.                                                                  *)
(***************************************************************************)
EXTENDS Integers, Sequences, FiniteSets, TLC

VARIABLES
  games,           \* /games/{gameId}: the game records (NoGame when absent)
  usedSignatures,  \* /usedSignatures/{txSignature}
  transfers,       \* confirmed custodial transfers out of the escrow wallet
  proc,            \* in-flight handler invocations: arguments, position, locals
  pending,         \* status-change events not yet delivered to processGamePayout
  delivered,       \* status-change events delivered at least once
  redeliveries,    \* number of duplicate deliveries so far
  last             \* the response the latest step returned (NoResult: none)

vars == <<games, usedSignatures, transfers, proc, pending, delivered, redeliveries, last>>

----------------------------------------------------------------------------
(* Bounds *)

\* Confirmed custodial transfers recorded per behaviour.
MaxTransfers == 2

\* Duplicate deliveries of status-change events per behaviour.
MaxRedeliveries == 1

----------------------------------------------------------------------------
(* The world *)

Null == "null"
NoTx == 0

GameIds == {"g1", "g2"}
Players == {"A", "B", "C"}
\* Invocation slots: at most two invocations are in flight at a time.
Procs == {1, 2}
Currencies == {"SOL", "USDC"}

\* betAmount values (tenths of a lamport): 1000 lamports, and 1000.5 lamports.
BetAmounts == {10000, 10005}

\* expectedAmount values a client may send (tenths of a lamport).
ExpectedAmounts == {10, 10000}

\* Deposit transactions on chain: fee payer, whether the escrow wallet is among
\* the account keys, and the escrow wallet's balance change in lamports.
Chain ==
  [s1 |-> [feePayer |-> "A", hasEscrow |-> TRUE,  delta |-> 1000],
   s2 |-> [feePayer |-> "B", hasEscrow |-> TRUE,  delta |-> 999],
   s3 |-> [feePayer |-> "B", hasEscrow |-> TRUE,  delta |-> 1500],
   s4 |-> [feePayer |-> "A", hasEscrow |-> TRUE,  delta |-> 998],
   s5 |-> [feePayer |-> "C", hasEscrow |-> TRUE,  delta |-> 1000],
   s6 |-> [feePayer |-> "A", hasEscrow |-> FALSE, delta |-> 0]]

\* Signatures a client may submit; s0 names no transaction.
Sigs == DOMAIN Chain \cup {"s0"}

----------------------------------------------------------------------------
(* Records *)

NoGame == [status |-> "none"]

NoDeposit == [txSignature |-> Null, amount |-> 0]

NoUse == [gameRoomId |-> Null, playerId |-> Null]

NewEscrow ==
  [status |-> "pending_deposits",
   player1Deposit |-> NoDeposit, player2Deposit |-> NoDeposit,
   payoutTx |-> NoTx, winnerPayout |-> 0,
   player1RefundTx |-> NoTx, player2RefundTx |-> NoTx,
   refundTx |-> NoTx, payoutError |-> FALSE]

NewPlayer(odid) ==
  [odid |-> odid, score |-> 0, wordsFound |-> <<>>, isReady |-> FALSE]

\* createGameRoom: the record a new game room is set to.
NewGame(p1, p2, bet, letters) ==
  [status |-> "waiting", letters |-> letters,
   betAmount |-> bet, betCurrency |-> "SOL",
   player1 |-> NewPlayer(p1), player2 |-> NewPlayer(p2),
   winner |-> Null, forfeitedBy |-> Null,
   escrow |-> NewEscrow]

Exists(g) == games[g].status # "none"

HasDeposit(d) == d.txSignature # Null

\* An invocation slot with no invocation in it.
Idle ==
  [op |-> "idle", pc |-> "idle",
   gameId |-> Null, playerId |-> Null, txSignature |-> Null,
   currency |-> Null, expectedAmount |-> 0, word |-> <<>>,
   before |-> Null, after |-> Null,
   amount |-> 0, dep1 |-> 0, dep2 |-> 0, winner |-> Null,
   both |-> FALSE, tx1 |-> NoTx, tx2 |-> NoTx, score |-> 0,
   playerKey |-> Null,
   usedAtStart |-> FALSE, escAtStart |-> Null]

NoResult == [op |-> "none", ok |-> FALSE, error |-> Null]

\* A new invocation takes the first free slot.
Free(q) == proc[q].op = "idle" /\ \A r \in Procs : r < q => proc[r].op # "idle"

\* No invocation is in flight.
AllIdle == \A q \in Procs : proc[q].op = "idle"

\* The invocation of op in slot q returns {success: ok, error}; the slot is
\* free again.
Return(q, op, ok, error) ==
  /\ proc' = [proc EXCEPT ![q] = Idle]
  /\ last' = [op |-> op, ok |-> ok, error |-> error]

\* The invocation in slot q moves on with new position and locals; the step
\* returns nothing.
Goto(q, r) ==
  /\ proc' = [proc EXCEPT ![q] = r]
  /\ last' = NoResult

----------------------------------------------------------------------------
(* Amount arithmetic *)

\* Math.round(betAmount * LAMPORTS_PER_SOL), betAmount in tenths of a lamport.
RoundLamports(bet) == (bet + 5) \div 10

\* The required amount, were it taken from the amount the caller claims.
RequiredFromCaller(gameBetAmount, expectedAmount) == RoundLamports(expectedAmount)

\* The amount verifyDeposit requires: from the game, not from the client.
RequiredLamports(gameBetAmount, expectedAmount) == RoundLamports(gameBetAmount)

\* amountReceived < requiredLamports * 0.999
Insufficient(amountReceived, requiredLamports) ==
  1000 * amountReceived < 999 * requiredLamports

----------------------------------------------------------------------------
(* verifyDeposit *)

IsPlayer(game, p) == game.player1.odid = p \/ game.player2.odid = p

\* The replay check, were it to find no signature recorded.
NeverUsed(sig) == FALSE

\* isSignatureUsed: snapshot.exists() of /usedSignatures/{txSignature}.
isSignatureUsed(sig) == usedSignatures[sig] # NoUse

\* markSignatureUsed: set() of /usedSignatures/{txSignature}.
markSignatureUsed(sig, g, p) ==
  usedSignatures' = [usedSignatures EXCEPT ![sig] = [gameRoomId |-> g, playerId |-> p]]

\* The checks on the transaction, were the sender not compared.
TxVerdictAnySender(tx, p, gameBetAmount, expectedAmount) ==
  IF ~tx.hasEscrow THEN "Transaction did not include escrow wallet"
  ELSE IF Insufficient(tx.delta, RequiredLamports(gameBetAmount, expectedAmount))
       THEN "Insufficient deposit"
  ELSE "ok"

\* The verdict on a fetched transaction: sender, escrow account, amount, in
\* the order the handler checks them.  "ok" when every check passes.
TxVerdict(tx, p, gameBetAmount, expectedAmount) ==
  IF tx.feePayer # p THEN "Transaction sender does not match claimed player"
  ELSE IF ~tx.hasEscrow THEN "Transaction did not include escrow wallet"
  ELSE IF Insufficient(tx.delta, RequiredLamports(gameBetAmount, expectedAmount))
       THEN "Insufficient deposit"
  ELSE "ok"

\* The checks on the game record, were the currency compared before the player.
GameVerdictCurrencyFirst(g, p, cur) ==
  IF ~Exists(g) THEN "Game not found"
  ELSE IF cur # games[g].betCurrency THEN "Game requires SOL deposits"
  ELSE IF ~IsPlayer(games[g], p) THEN "Player is not part of this game"
  ELSE "ok"

\* The verdict of the checks made on the game record the call reads first:
\* game, player, currency, in that order.  "ok" when every check passes.
GameVerdict(g, p, cur) ==
  IF ~Exists(g) THEN "Game not found"
  ELSE IF ~IsPlayer(games[g], p) THEN "Player is not part of this game"
  ELSE IF cur # games[g].betCurrency THEN "Game requires SOL deposits"
  ELSE "ok"

\* The escrow status a starting invocation finds (history, for the claims).
EscrowStatusOf(g) == IF Exists(g) THEN games[g].escrow.status ELSE Null

\* The call arrives and reads the game.
VD_Start(q, g, p, sig, cur, exp) ==
  /\ Free(q)
  /\ LET r == [Idle EXCEPT !.op = "verifyDeposit", !.pc = "vd_sig",
                           !.gameId = g, !.playerId = p, !.txSignature = sig,
                           !.currency = cur, !.expectedAmount = exp,
                           !.usedAtStart = (usedSignatures[sig] # NoUse),
                           !.escAtStart = EscrowStatusOf(g)]
         verdict == GameVerdict(g, p, cur)
     IN IF verdict # "ok" THEN Return(q, "verifyDeposit", FALSE, verdict)
        ELSE Goto(q, r)
  /\ UNCHANGED <<games, usedSignatures, transfers, pending, delivered, redeliveries>>

\* await isSignatureUsed(txSignature)
VD_CheckSig(q) ==
  /\ proc[q].op = "verifyDeposit" /\ proc[q].pc = "vd_sig"
  /\ IF isSignatureUsed(proc[q].txSignature)
     THEN Return(q, "verifyDeposit", FALSE, "Transaction has already been used for a deposit")
     ELSE Goto(q, [proc[q] EXCEPT !.pc = "vd_tx"])
  /\ UNCHANGED <<games, usedSignatures, transfers, pending, delivered, redeliveries>>

\* await connection.getTransaction(txSignature) finds the transaction.
VD_GetTx(q) ==
  /\ proc[q].op = "verifyDeposit" /\ proc[q].pc = "vd_tx"
  /\ proc[q].txSignature \in DOMAIN Chain
  /\ LET r == proc[q]
         tx == Chain[r.txSignature]
         verdict == TxVerdict(tx, r.playerId, games[r.gameId].betAmount, r.expectedAmount)
     IN IF verdict # "ok" THEN Return(q, "verifyDeposit", FALSE, verdict)
        ELSE Goto(q, [r EXCEPT !.pc = "vd_mark", !.amount = tx.delta])
  /\ UNCHANGED <<games, usedSignatures, transfers, pending, delivered, redeliveries>>

\* await connection.getTransaction(txSignature) returns null: the transaction
\* is not on chain, or has not propagated yet.
VD_TxNotFound(q) ==
  /\ proc[q].op = "verifyDeposit" /\ proc[q].pc = "vd_tx"
  /\ Return(q, "verifyDeposit", FALSE, "Transaction not found on Solana")
  /\ UNCHANGED <<games, usedSignatures, transfers, pending, delivered, redeliveries>>

\* await markSignatureUsed(txSignature, gameRoomId, playerId)
VD_Mark(q) ==
  /\ proc[q].op = "verifyDeposit" /\ proc[q].pc = "vd_mark"
  /\ markSignatureUsed(proc[q].txSignature, proc[q].gameId, proc[q].playerId)
  /\ Goto(q, [proc[q] EXCEPT !.pc = "vd_dep"])
  /\ UNCHANGED <<games, transfers, pending, delivered, redeliveries>>

\* updateDepositInFirebase: the slot is chosen by player1/odid, then set().
DepositKey(game, p) == IF game.player1.odid = p THEN "player1Deposit" ELSE "player2Deposit"

VD_SetDeposit(q) ==
  /\ proc[q].op = "verifyDeposit" /\ proc[q].pc = "vd_dep"
  /\ LET r == proc[q]
         g == r.gameId
         d == [txSignature |-> r.txSignature, amount |-> r.amount]
     IN games' = [games EXCEPT ![g].escrow[DepositKey(games[g], r.playerId)] = d]
  /\ Goto(q, [proc[q] EXCEPT !.pc = "vd_read"])
  /\ UNCHANGED <<usedSignatures, transfers, pending, delivered, redeliveries>>

\* updateDepositInFirebase: the fresh read of escrow after the write.
VD_ReadEscrow(q) ==
  /\ proc[q].op = "verifyDeposit" /\ proc[q].pc = "vd_read"
  /\ LET e == games[proc[q].gameId].escrow
     IN Goto(q, [proc[q] EXCEPT !.pc = "vd_status",
                  !.both = HasDeposit(e.player1Deposit) /\ HasDeposit(e.player2Deposit)])
  /\ UNCHANGED <<games, usedSignatures, transfers, pending, delivered, redeliveries>>

\* The status written, were every verified deposit to lock the escrow.
LockedByAnyDeposit(both) == "locked"

\* The status updateDepositInFirebase writes after its read.
DepositStatus(both) == IF both THEN "locked" ELSE "pending_deposits"

\* updateDepositInFirebase: set() of escrow/status; the call returns success.
VD_SetStatus(q) ==
  /\ proc[q].op = "verifyDeposit" /\ proc[q].pc = "vd_status"
  /\ LET g == proc[q].gameId
     IN games' = [games EXCEPT ![g].escrow.status = DepositStatus(proc[q].both)]
  /\ Return(q, "verifyDeposit", TRUE, Null)
  /\ UNCHANGED <<usedSignatures, transfers, pending, delivered, redeliveries>>

\* A store or chain call of verifyDeposit throws: the catch block returns
\* {success: false, error: error.message}; the failed call has no effect.
VD_Throw(q) ==
  /\ proc[q].op = "verifyDeposit"
  /\ Return(q, "verifyDeposit", FALSE, "exception")
  /\ UNCHANGED <<games, usedSignatures, transfers, pending, delivered, redeliveries>>

----------------------------------------------------------------------------
(* The status trigger and custodial transfers *)

\* A write of /games/{g}/status that changes its value raises one event for
\* the onUpdate trigger of processGamePayout.
Emit(g, before, after) ==
  IF before = after THEN UNCHANGED pending
  ELSE pending' = pending \cup {[gameId |-> g, before |-> before, after |-> after]}

\* sendPayout succeeds: a transfer of amount lamports from the escrow wallet to
\* recipientAddress is confirmed.  Its signature is its place in the log.
sendPayout(q, recipientAddress, amount, kind) ==
  /\ Len(transfers) < MaxTransfers
  /\ transfers' = Append(transfers,
       [gameId |-> proc[q].gameId, to |-> recipientAddress, amount |-> amount,
        kind |-> kind])

NewSignature == Len(transfers) + 1

----------------------------------------------------------------------------
(* processGamePayout: the settlement *)

\* The trigger filter, were it to let no change through.
NoTransition(before, after) == FALSE

\* The trigger filter, were it to let every change through.
AnyTransition(before, after) == TRUE

\* The trigger's filter: only a change to 'finished' from something else.
IsFinishTransition(before, after) == after = "finished" /\ before # "finished"

\* The settlement decision without the checks of the escrow status.
SettleVerdictUnguarded(game) ==
  IF game.status = "none" THEN "Game not found"
  ELSE IF game.escrow.player1Deposit.amount + game.escrow.player2Deposit.amount = 0
       THEN "No deposits to pay out"
  ELSE IF game.winner = Null THEN "tie"
  ELSE "winner"

\* The settlement decision, were only a settled escrow to stop it.
SettleVerdictUnlessSettled(game) ==
  IF game.status = "none" THEN "Game not found"
  ELSE IF game.escrow.status \in {"paid_out", "refunded"} THEN "Already processed"
  ELSE IF game.escrow.player1Deposit.amount + game.escrow.player2Deposit.amount = 0
       THEN "No deposits to pay out"
  ELSE IF game.winner = Null THEN "tie"
  ELSE "winner"

\* What a settlement run decides from the game it read: the reason it stops,
\* or "tie" / "winner" when it goes on to transfer.
SettleVerdict(game) ==
  IF game.status = "none" THEN "Game not found"
  ELSE IF game.escrow.status \in {"paid_out", "refunded"} THEN "Already processed"
  ELSE IF game.escrow.status # "locked" THEN "Escrow not locked, skipping payout"
  ELSE IF game.escrow.player1Deposit.amount + game.escrow.player2Deposit.amount = 0
       THEN "No deposits to pay out"
  ELSE IF game.winner = Null THEN "tie"
  ELSE "winner"

\* The body of the handler for event e, from the filter to the read of the game.
ST_Begin(q, e) ==
  LET g == e.gameId
      verdict == SettleVerdict(games[g])
      r == [Idle EXCEPT !.op = "processGamePayout",
                        !.gameId = g, !.before = e.before, !.after = e.after,
                        !.escAtStart = EscrowStatusOf(g)]
  IN IF ~IsFinishTransition(e.before, e.after)
     THEN Return(q, "processGamePayout", FALSE, "Not a change to finished")
     ELSE IF verdict \notin {"tie", "winner"}
     THEN Return(q, "processGamePayout", FALSE, verdict)
     ELSE Goto(q, [r EXCEPT !.pc = IF verdict = "tie" THEN "st_refund1" ELSE "st_pay",
                            !.winner = games[g].winner,
                            !.dep1 = games[g].escrow.player1Deposit.amount,
                            !.dep2 = games[g].escrow.player2Deposit.amount,
                            !.amount = games[g].escrow.player1Deposit.amount
                                       + games[g].escrow.player2Deposit.amount])

\* The trigger fires for a status change.
ST_Deliver(q, e) ==
  /\ Free(q)
  /\ e \in pending
  /\ pending' = pending \ {e}
  /\ delivered' = delivered \cup {e}
  /\ ST_Begin(q, e)
  /\ UNCHANGED <<games, usedSignatures, transfers, redeliveries>>

\* The trigger fires again for a status change already delivered.
ST_Redeliver(q, e) ==
  /\ Free(q)
  /\ e \in delivered
  /\ redeliveries < MaxRedeliveries
  /\ redeliveries' = redeliveries + 1
  /\ ST_Begin(q, e)
  /\ UNCHANGED <<games, usedSignatures, transfers, pending, delivered>>

\* The refund of a tie, were the pot split equally.
EqualSplit(own, other) == (own + other) \div 2

\* The amount a tie refund sends to a player: that player's own deposit.
TieRefundAmount(own, other) == own

\* Tie: player 1's refund is sent.
ST_Refund1(q) ==
  /\ proc[q].op = "processGamePayout" /\ proc[q].pc = "st_refund1"
  /\ proc[q].dep1 > 0
  /\ sendPayout(q, games[proc[q].gameId].player1.odid,
                TieRefundAmount(proc[q].dep1, proc[q].dep2), "refund1")
  /\ Goto(q, [proc[q] EXCEPT !.pc = "st_refund2", !.tx1 = NewSignature])
  /\ UNCHANGED <<games, usedSignatures, pending, delivered, redeliveries>>

\* Tie: player 1's refund throws, were the error to end the run in the
\* catch block of the settlement.
ST_Refund1Aborts(q) ==
  /\ proc[q].op = "processGamePayout" /\ proc[q].pc = "st_refund1"
  /\ Goto(q, [proc[q] EXCEPT !.pc = "st_werror"])
  /\ UNCHANGED <<games, usedSignatures, transfers, pending, delivered, redeliveries>>

\* Tie: player 1's refund throws, or there is nothing to refund to player 1.
ST_Refund1Fails(q) ==
  /\ proc[q].op = "processGamePayout" /\ proc[q].pc = "st_refund1"
  /\ Goto(q, [proc[q] EXCEPT !.pc = "st_refund2"])
  /\ UNCHANGED <<games, usedSignatures, transfers, pending, delivered, redeliveries>>

\* Tie: player 2's refund is sent.
ST_Refund2(q) ==
  /\ proc[q].op = "processGamePayout" /\ proc[q].pc = "st_refund2"
  /\ proc[q].dep2 > 0
  /\ sendPayout(q, games[proc[q].gameId].player2.odid,
                TieRefundAmount(proc[q].dep2, proc[q].dep1), "refund2")
  /\ Goto(q, [proc[q] EXCEPT !.pc = "st_wrefund", !.tx2 = NewSignature])
  /\ UNCHANGED <<games, usedSignatures, pending, delivered, redeliveries>>

\* Tie: player 2's refund throws, or there is nothing to refund to player 2.
ST_Refund2Fails(q) ==
  /\ proc[q].op = "processGamePayout" /\ proc[q].pc = "st_refund2"
  /\ Goto(q, [proc[q] EXCEPT !.pc = "st_wrefund"])
  /\ UNCHANGED <<games, usedSignatures, transfers, pending, delivered, redeliveries>>

\* Tie: update() of escrow with status 'refunded' and the two signatures.
ST_WriteRefunded(q) ==
  /\ proc[q].op = "processGamePayout" /\ proc[q].pc = "st_wrefund"
  /\ games' = [games EXCEPT ![proc[q].gameId].escrow =
                 [@ EXCEPT !.status = "refunded",
                           !.player1RefundTx = proc[q].tx1,
                           !.player2RefundTx = proc[q].tx2]]
  /\ Return(q, "processGamePayout", TRUE, "refunded")
  /\ UNCHANGED <<usedSignatures, transfers, pending, delivered, redeliveries>>

\* The recipient and the amount of the winner's payout.
WinnerAddress(winner) == winner
\* The payout, were it the winner's stake alone.
FirstDepositOnly(dep1, dep2) == dep1

PayoutAmount(dep1, dep2) == dep1 + dep2

\* The winner's payout, were the escrow marked paid_out before the transfer
\* is sent.
ST_PayMarksFirst(q) ==
  /\ proc[q].op = "processGamePayout" /\ proc[q].pc = "st_pay"
  /\ games' = [games EXCEPT ![proc[q].gameId].escrow.status = "paid_out"]
  /\ Goto(q, [proc[q] EXCEPT !.pc = "st_wpaid"])
  /\ UNCHANGED <<usedSignatures, transfers, pending, delivered, redeliveries>>

\* Winner: the payout is sent.
ST_Pay(q) ==
  /\ proc[q].op = "processGamePayout" /\ proc[q].pc = "st_pay"
  /\ sendPayout(q, WinnerAddress(proc[q].winner),
                PayoutAmount(proc[q].dep1, proc[q].dep2), "payout")
  /\ Goto(q, [proc[q] EXCEPT !.pc = "st_wpaid", !.tx1 = NewSignature])
  /\ UNCHANGED <<games, usedSignatures, pending, delivered, redeliveries>>

\* Winner: the payout throws; control goes to the catch block.
ST_PayFails(q) ==
  /\ proc[q].op = "processGamePayout" /\ proc[q].pc = "st_pay"
  /\ Goto(q, [proc[q] EXCEPT !.pc = "st_werror"])
  /\ UNCHANGED <<games, usedSignatures, transfers, pending, delivered, redeliveries>>

\* Winner: update() of escrow with status 'paid_out' and the signature.
ST_WritePaid(q) ==
  /\ proc[q].op = "processGamePayout" /\ proc[q].pc = "st_wpaid"
  /\ games' = [games EXCEPT ![proc[q].gameId].escrow =
                 [@ EXCEPT !.status = "paid_out",
                           !.payoutTx = proc[q].tx1,
                           !.winnerPayout = PayoutAmount(proc[q].dep1, proc[q].dep2)]]
  /\ Return(q, "processGamePayout", TRUE, "paid_out")
  /\ UNCHANGED <<usedSignatures, transfers, pending, delivered, redeliveries>>

\* The catch block: update() of escrow with payoutError, status untouched.
ST_WriteError(q) ==
  /\ proc[q].op = "processGamePayout" /\ proc[q].pc = "st_werror"
  /\ games' = [games EXCEPT ![proc[q].gameId].escrow.payoutError = TRUE]
  /\ Return(q, "processGamePayout", FALSE, "exception")
  /\ UNCHANGED <<usedSignatures, transfers, pending, delivered, redeliveries>>

----------------------------------------------------------------------------
(* processForfeit (server) and forfeitGame (client) *)

\* The winner of a forfeit, were it the player who forfeits.
Forfeiter(game, forfeitingPlayerId) == forfeitingPlayerId

\* The opponent of the forfeiting player, as both forfeit paths compute it.
Opponent(game, forfeitingPlayerId) ==
  IF game.player1.odid = forfeitingPlayerId THEN game.player2.odid
  ELSE game.player1.odid

\* What processForfeit decides from the game it read.
ForfeitVerdict(game) ==
  IF game.status = "none" THEN "Game not found"
  ELSE IF game.status = "finished" THEN "Game already finished"
  ELSE "ok"

PF_Start(q, g, p) ==
  /\ Free(q)
  /\ LET verdict == ForfeitVerdict(games[g])
     IN IF verdict # "ok" THEN Return(q, "processForfeit", FALSE, verdict)
        ELSE Goto(q, [Idle EXCEPT !.op = "processForfeit", !.pc = "pf_write",
                                  !.gameId = g, !.playerId = p,
                                  !.winner = Opponent(games[g], p),
                                  !.escAtStart = EscrowStatusOf(g)])
  /\ UNCHANGED <<games, usedSignatures, transfers, pending, delivered, redeliveries>>

\* gameRef.update({status: 'finished', winner, endedAt, forfeitedBy})
ForfeitUpdate(game, winner, forfeitingPlayerId) ==
  [game EXCEPT !.status = "finished", !.winner = winner,
               !.forfeitedBy = forfeitingPlayerId]

PF_Write(q) ==
  /\ proc[q].op = "processForfeit" /\ proc[q].pc = "pf_write"
  /\ LET g == proc[q].gameId
     IN /\ games' = [games EXCEPT ![g] = ForfeitUpdate(@, proc[q].winner, proc[q].playerId)]
        /\ Emit(g, games[g].status, "finished")
  /\ Return(q, "processForfeit", TRUE, Null)
  /\ UNCHANGED <<usedSignatures, transfers, delivered, redeliveries>>

\* forfeitGame reads the game; it has no check of the status.
FG_Start(q, g, p) ==
  /\ Free(q)
  /\ IF ~Exists(g) THEN Return(q, "forfeitGame", FALSE, "Game not found")
     ELSE Goto(q, [Idle EXCEPT !.op = "forfeitGame", !.pc = "fg_write",
                               !.gameId = g, !.playerId = p,
                               !.winner = Opponent(games[g], p),
                               !.escAtStart = EscrowStatusOf(g)])
  /\ UNCHANGED <<games, usedSignatures, transfers, pending, delivered, redeliveries>>

FG_Write(q) ==
  /\ proc[q].op = "forfeitGame" /\ proc[q].pc = "fg_write"
  /\ LET g == proc[q].gameId
     IN /\ games' = [games EXCEPT ![g] = ForfeitUpdate(@, proc[q].winner, proc[q].playerId)]
        /\ Emit(g, games[g].status, "finished")
  /\ Return(q, "forfeitGame", TRUE, Null)
  /\ UNCHANGED <<usedSignatures, transfers, delivered, redeliveries>>

----------------------------------------------------------------------------
(* endGame (client) *)

\* The winner by scores; Null (undefined) on equal scores.
ScoreWinner(game) ==
  IF game.player1.score > game.player2.score THEN game.player1.odid
  ELSE IF game.player2.score > game.player1.score THEN game.player2.odid
  ELSE Null

EG_Start(q, g) ==
  /\ Free(q)
  /\ IF ~Exists(g) THEN Return(q, "endGame", FALSE, "Game not found")
     ELSE Goto(q, [Idle EXCEPT !.op = "endGame", !.pc = "eg_write",
                               !.gameId = g, !.winner = ScoreWinner(games[g]),
                               !.escAtStart = EscrowStatusOf(g)])
  /\ UNCHANGED <<games, usedSignatures, transfers, pending, delivered, redeliveries>>

\* gameRef.update({status: 'finished', endedAt, winner}).  With winner
\* undefined the key reaches the store either not at all (the stored winner
\* stays) or as null (the stored winner is cleared), depending on how the
\* client library serialises it.
EG_Write(q) ==
  /\ proc[q].op = "endGame" /\ proc[q].pc = "eg_write"
  /\ LET g == proc[q].gameId
     IN /\ \E w \in (IF proc[q].winner = Null THEN {games[g].winner, Null}
                     ELSE {proc[q].winner}) :
             games' = [games EXCEPT ![g].status = "finished", ![g].winner = w]
        /\ Emit(g, games[g].status, "finished")
  /\ Return(q, "endGame", TRUE, Null)
  /\ UNCHANGED <<usedSignatures, transfers, delivered, redeliveries>>

----------------------------------------------------------------------------
(* setPlayerReady (client) *)

\* The slot setPlayerReady writes: player2 for anyone who is not player 1.
PlayerKey(game, p) == IF game.player1.odid = p THEN "player1" ELSE "player2"

SR_Start(q, g, p) ==
  /\ Free(q)
  /\ IF ~Exists(g) THEN Return(q, "setPlayerReady", FALSE, "Game not found")
     ELSE Goto(q, [Idle EXCEPT !.op = "setPlayerReady", !.pc = "sr_set",
                               !.gameId = g, !.playerId = p,
                               !.playerKey = PlayerKey(games[g], p),
                               !.escAtStart = EscrowStatusOf(g)])
  /\ UNCHANGED <<games, usedSignatures, transfers, pending, delivered, redeliveries>>

\* set() of {playerKey}/isReady
SR_Set(q) ==
  /\ proc[q].op = "setPlayerReady" /\ proc[q].pc = "sr_set"
  /\ games' = [games EXCEPT ![proc[q].gameId][proc[q].playerKey].isReady = TRUE]
  /\ Goto(q, [proc[q] EXCEPT !.pc = "sr_read"])
  /\ UNCHANGED <<usedSignatures, transfers, pending, delivered, redeliveries>>

\* Whether the game read by setPlayerReady may start.
MayStart(game) ==
  /\ game.player1.isReady /\ game.player2.isReady
  /\ game.escrow.status = "locked"

\* The second read of the game.
SR_Read(q) ==
  /\ proc[q].op = "setPlayerReady" /\ proc[q].pc = "sr_read"
  /\ IF MayStart(games[proc[q].gameId])
     THEN Goto(q, [proc[q] EXCEPT !.pc = "sr_write"])
     ELSE Return(q, "setPlayerReady", TRUE, "waiting")
  /\ UNCHANGED <<games, usedSignatures, transfers, pending, delivered, redeliveries>>

\* gameRef.update({status: 'playing', startedAt})
SR_Write(q) ==
  /\ proc[q].op = "setPlayerReady" /\ proc[q].pc = "sr_write"
  /\ LET g == proc[q].gameId
     IN /\ games' = [games EXCEPT ![g].status = "playing"]
        /\ Emit(g, games[g].status, "playing")
  /\ Return(q, "setPlayerReady", TRUE, "playing")
  /\ UNCHANGED <<usedSignatures, transfers, delivered, redeliveries>>

----------------------------------------------------------------------------
(* cancelMatchmaking *)

Min(a, b) == IF a < b THEN a ELSE b

\* game.betAmount || 0.01, in tenths of a lamport.
DefaultBetAmount == 100000000

\* The deposit cancelMatchmaking refunds: the caller's slot, or else the other.
CancelDeposit(game, p) ==
  LET isPlayer1 == game.player1.odid = p
      own == IF isPlayer1 THEN game.escrow.player1Deposit ELSE game.escrow.player2Deposit
      other == IF isPlayer1 THEN game.escrow.player2Deposit ELSE game.escrow.player1Deposit
  IN IF ~HasDeposit(own) \/ own.amount = 0 THEN other ELSE own

\* The refund of a cancel, were it not capped.
UncappedRefund(depositAmount, betAmount) == depositAmount

\* Math.min(deposit.amount, Math.round(gameBetAmount * LAMPORTS_PER_SOL))
RefundAmount(depositAmount, betAmount) ==
  Min(depositAmount,
      RoundLamports(IF betAmount = 0 THEN DefaultBetAmount ELSE betAmount))

\* The decision of cancelMatchmaking, were the game status not checked.
CancelVerdictAnyStatus(game, p) ==
  IF game.status = "none" THEN "Game not found, nothing to refund"
  ELSE IF ~HasDeposit(CancelDeposit(game, p)) \/ CancelDeposit(game, p).amount = 0
       THEN "No deposit to refund"
  ELSE "ok"

\* What cancelMatchmaking decides from the game it read.
CancelVerdict(game, p) ==
  IF game.status = "none" THEN "Game not found, nothing to refund"
  ELSE IF game.status \in {"playing", "finished"} THEN "Cannot cancel - game in progress"
  ELSE IF ~HasDeposit(CancelDeposit(game, p)) \/ CancelDeposit(game, p).amount = 0
       THEN "No deposit to refund"
  ELSE "ok"

CM_Start(q, g, p) ==
  /\ Free(q)
  /\ LET verdict == CancelVerdict(games[g], p)
     IN IF verdict # "ok"
        THEN Return(q, "cancelMatchmaking",
                    verdict # "Cannot cancel - game in progress", verdict)
        ELSE Goto(q, [Idle EXCEPT !.op = "cancelMatchmaking", !.pc = "cm_send",
                                  !.gameId = g, !.playerId = p,
                                  !.amount = RefundAmount(CancelDeposit(games[g], p).amount,
                                                          games[g].betAmount),
                                  !.escAtStart = EscrowStatusOf(g)])
  /\ UNCHANGED <<games, usedSignatures, transfers, pending, delivered, redeliveries>>

\* The refund is sent to the caller.
CM_Send(q) ==
  /\ proc[q].op = "cancelMatchmaking" /\ proc[q].pc = "cm_send"
  /\ sendPayout(q, proc[q].playerId, proc[q].amount, "cancel")
  /\ Goto(q, [proc[q] EXCEPT !.pc = "cm_write", !.tx1 = NewSignature])
  /\ UNCHANGED <<games, usedSignatures, pending, delivered, redeliveries>>

\* The refund throws: the catch block returns the error.
CM_SendFails(q) ==
  /\ proc[q].op = "cancelMatchmaking" /\ proc[q].pc = "cm_send"
  /\ Return(q, "cancelMatchmaking", FALSE, "exception")
  /\ UNCHANGED <<games, usedSignatures, transfers, pending, delivered, redeliveries>>

\* gameRef.update({status: 'cancelled', ..., 'escrow/status': 'refunded',
\* 'escrow/refundTx': refundSignature})
CM_Write(q) ==
  /\ proc[q].op = "cancelMatchmaking" /\ proc[q].pc = "cm_write"
  /\ LET g == proc[q].gameId
     IN /\ games' = [games EXCEPT ![g].status = "cancelled",
                                  ![g].escrow.status = "refunded",
                                  ![g].escrow.refundTx = proc[q].tx1]
        /\ Emit(g, games[g].status, "cancelled")
  /\ Return(q, "cancelMatchmaking", TRUE, Null)
  /\ UNCHANGED <<usedSignatures, transfers, delivered, redeliveries>>

----------------------------------------------------------------------------
(* submitWord: server-side word submission *)

\* Words are sequences of one-character strings.
\* String.prototype.toUpperCase / toLowerCase, on the characters in use.
UpperChar(c) ==
  CASE c = "t" -> "T" [] c = "e" -> "E" [] c = "s" -> "S" [] c = "a" -> "A"
    [] OTHER -> c

LowerChar(c) ==
  CASE c = "T" -> "t" [] c = "E" -> "e" [] c = "S" -> "s" [] c = "A" -> "a"
    [] OTHER -> c

ToUpperCase(word) == [i \in 1..Len(word) |-> UpperChar(word[i])]
ToLowerCase(word) == [i \in 1..Len(word) |-> LowerChar(word[i])]

\* String.prototype.trim: white space off both ends.
RECURSIVE TrimStart(_), TrimEnd(_)
TrimStart(word) ==
  IF word # <<>> /\ Head(word) = " " THEN TrimStart(Tail(word)) ELSE word
TrimEnd(word) ==
  IF word # <<>> /\ word[Len(word)] = " "
  THEN TrimEnd(SubSeq(word, 1, Len(word) - 1)) ELSE word
Trim(word) == TrimEnd(TrimStart(word))

\* word.toUpperCase().trim()
Normalize(word) == Trim(ToUpperCase(word))

\* Array.prototype.includes
Includes(seq, x) == \E i \in 1..Len(seq) : seq[i] = x

\* Array.prototype.indexOf, 1-based; 0 when absent.
IndexOf(seq, x) ==
  IF Includes(seq, x) THEN CHOOSE i \in 1..Len(seq) :
                             seq[i] = x /\ \A j \in 1..(i - 1) : seq[j] # x
  ELSE 0

\* Array.prototype.splice(index, 1)
Splice(seq, i) == SubSeq(seq, 1, i - 1) \o SubSeq(seq, i + 1, Len(seq))

\* The loop of canFormWord over the characters still to place.
RECURSIVE CanForm(_, _)
CanForm(chars, available) ==
  IF chars = <<>> THEN TRUE
  ELSE LET index == IndexOf(available, Head(chars))
       IN IF index = 0 THEN FALSE
          ELSE CanForm(Tail(chars), Splice(available, index))

\* The check, were a letter of the pool usable any number of times.
CanFormFromSet(word, availableLetters) ==
  \A i \in 1..Len(word) : Includes(availableLetters, UpperChar(word[i]))

canFormWord(word, availableLetters) == CanForm(ToUpperCase(word), availableLetters)

\* calculateScore (server): by length.
calculateScore(word) ==
  LET length == Len(word)
  IN IF length < 3 THEN 0
     ELSE IF length > 8 THEN 23 + (length - 8) * 6
     ELSE CASE length = 3 -> 3 [] length = 4 -> 5 [] length = 5 -> 8
            [] length = 6 -> 12 [] length = 7 -> 17 [] length = 8 -> 23

\* The dictionary: the words of it that matter for the letter pools in use.
VALID_WORDS ==
  {<<"t", "e", "s", "t">>, <<"s", "e", "t">>, <<"t", "a", "s", "t", "e">>,
   <<"t", "e", "s", "t", "s">>, <<"a", "t">>}

\* The decision of submitWord, were the game status not checked.
SubmitVerdictAnyStatus(game, p, normalizedWord) ==
  IF game.status = "none" THEN "Game not found"
  ELSE IF ~IsPlayer(game, p) THEN "Player not in this game"
  ELSE IF Len(normalizedWord) < 3 THEN "Word must be at least 3 letters"
  ELSE IF ~canFormWord(normalizedWord, game.letters)
       THEN "Word cannot be formed from available letters"
  ELSE IF ToLowerCase(normalizedWord) \notin VALID_WORDS THEN "Not a valid English word"
  ELSE IF Includes(game[PlayerKey(game, p)].wordsFound, normalizedWord)
       THEN "Word already submitted"
  ELSE "ok"

\* What submitWord decides from the game it read.
SubmitVerdict(game, p, normalizedWord) ==
  IF game.status = "none" THEN "Game not found"
  ELSE IF game.status # "playing" THEN "Game is not in progress"
  ELSE IF ~IsPlayer(game, p) THEN "Player not in this game"
  ELSE IF Len(normalizedWord) < 3 THEN "Word must be at least 3 letters"
  ELSE IF ~canFormWord(normalizedWord, game.letters)
       THEN "Word cannot be formed from available letters"
  ELSE IF ToLowerCase(normalizedWord) \notin VALID_WORDS THEN "Not a valid English word"
  ELSE IF Includes(game[PlayerKey(game, p)].wordsFound, normalizedWord)
       THEN "Word already submitted"
  ELSE "ok"

SW_Start(q, g, p, word) ==
  /\ Free(q)
  /\ LET normalizedWord == Normalize(word)
         verdict == SubmitVerdict(games[g], p, normalizedWord)
     IN IF verdict # "ok" THEN Return(q, "submitWord", FALSE, verdict)
        ELSE Goto(q, [Idle EXCEPT !.op = "submitWord", !.pc = "sw_txn",
                                  !.gameId = g, !.playerId = p,
                                  !.word = normalizedWord,
                                  !.score = calculateScore(normalizedWord),
                                  !.playerKey = PlayerKey(games[g], p)])
  /\ UNCHANGED <<games, usedSignatures, transfers, pending, delivered, redeliveries>>

\* The update, were it not to look at the words already stored.
BlindUpdate(currentData, normalizedWord, score) ==
  [currentData EXCEPT !.score = @ + score,
                      !.wordsFound = Append(@, normalizedWord)]

\* The update, were it to store the new word in place of the stored ones.
ReplacingUpdate(currentData, normalizedWord, score) ==
  IF Includes(currentData.wordsFound, normalizedWord) THEN currentData
  ELSE [currentData EXCEPT !.score = score, !.wordsFound = <<normalizedWord>>]

\* The update, were it to store the word without its score.
UnscoredUpdate(currentData, normalizedWord, score) ==
  IF Includes(currentData.wordsFound, normalizedWord) THEN currentData
  ELSE [currentData EXCEPT !.wordsFound = Append(@, normalizedWord)]

\* The update function of playerRef.transaction().
TransactionUpdate(currentData, normalizedWord, score) ==
  IF Includes(currentData.wordsFound, normalizedWord) THEN currentData
  ELSE [currentData EXCEPT !.score = @ + score,
                           !.wordsFound = Append(@, normalizedWord)]

\* playerRef.transaction(...): one atomic read-modify-write of the player's
\* record; the call then returns success with the score.
SW_Transaction(q) ==
  /\ proc[q].op = "submitWord" /\ proc[q].pc = "sw_txn"
  /\ games' = [games EXCEPT ![proc[q].gameId][proc[q].playerKey] =
                 TransactionUpdate(@, proc[q].word, proc[q].score)]
  /\ Return(q, "submitWord", TRUE, Null)
  /\ UNCHANGED <<usedSignatures, transfers, pending, delivered, redeliveries>>

----------------------------------------------------------------------------
(* Initial states *)

\* The letter pool of the game rooms.
Letters == <<"T", "E", "S", "T", "A">>

InitRest ==
  /\ usedSignatures = [s \in Sigs |-> NoUse]
  /\ transfers = <<>>
  /\ proc = [q \in Procs |-> Idle]
  /\ pending = {}
  /\ delivered = {}
  /\ redeliveries = 0
  /\ last = NoResult

\* One game room just created, with the given bet.
InitOneGame(bets) ==
  /\ \E b \in bets :
       games = [g \in GameIds |-> IF g = "g1" THEN NewGame("A", "B", b, Letters)
                                             ELSE NoGame]
  /\ InitRest

----------------------------------------------------------------------------
(* Spec: the escrow of one game room.  Deposits, forfeit, end of game, cancel
   and settlement, one invocation at a time, in any order and any number of
   times. *)

EscrowCalls(q) ==
  \/ \E p \in {"A", "B"}, sig \in {"s1", "s2", "s3"} :
       VD_Start(q, "g1", p, sig, "SOL", 0)
  \/ \E e \in pending : ST_Deliver(q, e)
  \/ \E e \in delivered : ST_Redeliver(q, e)
  \/ \E p \in {"A", "B"} : PF_Start(q, "g1", p)
  \/ EG_Start(q, "g1")
  \/ \E p \in {"A", "B"} : CM_Start(q, "g1", p)

EscrowSteps(q) ==
  \/ VD_CheckSig(q)
  \/ VD_GetTx(q)
  \/ VD_TxNotFound(q)
  \/ VD_Mark(q)
  \/ VD_SetDeposit(q)
  \/ VD_ReadEscrow(q)
  \/ VD_SetStatus(q)
  \/ ST_Refund1(q)
  \/ ST_Refund1Fails(q)
  \/ ST_Refund2(q)
  \/ ST_Refund2Fails(q)
  \/ ST_WriteRefunded(q)
  \/ ST_Pay(q)
  \/ ST_PayFails(q)
  \/ ST_WritePaid(q)
  \/ ST_WriteError(q)
  \/ PF_Write(q)
  \/ EG_Write(q)
  \/ CM_Send(q)
  \/ CM_SendFails(q)
  \/ CM_Write(q)

Next == \E q \in Procs : (AllIdle /\ EscrowCalls(q)) \/ EscrowSteps(q)

Init == InitOneGame({10000})

Spec == Init /\ [][Next]_vars

\* The invocation in flight, when there is one (Spec runs one at a time).
InFlight(q) == proc[q].op # "idle"

\* The step sends a transfer.
Sends == Len(transfers') = Len(transfers) + 1

\* The transfer the step sends.
Sent == transfers'[Len(transfers')]

Terminal == {"paid_out", "refunded"}

\* The escrow status moves the step makes are among those of the lifecycle.
EscrowMove(a, b) ==
  \/ a = b
  \/ a = "pending_deposits" /\ b \in {"locked", "refunded"}
  \/ a = "locked" /\ b \in {"paid_out", "refunded"}

\* C1: across any sequence of verifyDeposit, processGamePayout, processForfeit
\* and cancelMatchmaking calls, escrow.status only moves pending_deposits ->
\* locked -> {paid_out | refunded}, or to refunded by a cancel, and never
\* leaves paid_out or refunded.
C1_EscrowStatusMonotonic ==
  [][\A g \in GameIds :
       Exists(g) => EscrowMove(games[g].escrow.status, games'[g].escrow.status)]_vars

\* C2: an invocation of processGamePayout or cancelMatchmaking that starts
\* when escrow.status is already paid_out or refunded sends no transfer.
C2_NoTransferAfterTerminal ==
  [][Sends => \A q \in Procs : InFlight(q) => proc[q].escAtStart \notin Terminal]_vars

\* A settlement run has just returned after reaching its transfers: it paid,
\* refunded, or failed in the catch block.
SettlementJustRan ==
  last.op = "processGamePayout" /\ last.error \in {"paid_out", "refunded", "exception"}

\* The step is the start of a settlement run that stops at once as a no-op:
\* it sends nothing and writes nothing.
StartsSettlementAsNoOp ==
  /\ \A q \in Procs : proc'[q].op = "idle"
  /\ last'.op = "processGamePayout"
  /\ last'.error = "Already processed"
  /\ games' = games /\ transfers' = transfers

\* The step is the start of a settlement run for a change to finished.
StartsSettlement ==
  /\ AllIdle
  /\ \/ \E q \in Procs : proc'[q].op = "processGamePayout"
     \/ last'.op = "processGamePayout" /\ last'.error # "Not a change to finished"

\* C3 as stated: a settlement run started right after a settlement run of the
\* same finished, locked game sends nothing and leaves the escrow unchanged.
C3_SecondRunIsNoOp ==
  [][SettlementJustRan /\ StartsSettlement => StartsSettlementAsNoOp]_vars

\* C3 as amended: a settlement run started right after a settlement run that
\* recorded paid_out or refunded sends nothing and leaves the escrow unchanged.
C3_SecondRunAfterSettledIsNoOp ==
  [][SettlementJustRan /\ last.ok /\ StartsSettlement => StartsSettlementAsNoOp]_vars

\* A second run has just stopped as a no-op right after a run that paid out.
C3_Witness ==
  /\ last.op = "processGamePayout" /\ last.error = "Already processed"
  /\ redeliveries = 1
  /\ games["g1"].escrow.status = "paid_out"
  /\ Len(transfers) = 1

\* C8: in a tie settlement every refund goes to the player it is for and is
\* exactly that player's recorded deposit amount, also when the two deposits
\* differ; the pot is not split.
C8_TieRefundsOwnDeposit ==
  [][\A q \in Procs :
       proc[q].op = "processGamePayout" /\ Sends =>
         LET game == games[proc[q].gameId]
         IN /\ proc[q].pc = "st_refund1" =>
                 /\ game.winner = Null
                 /\ Sent.to = game.player1.odid
                 /\ Sent.amount = game.escrow.player1Deposit.amount
            /\ proc[q].pc = "st_refund2" =>
                 /\ game.winner = Null
                 /\ Sent.to = game.player2.odid
                 /\ Sent.amount = game.escrow.player2Deposit.amount
            /\ game.winner = Null => proc[q].pc \in {"st_refund1", "st_refund2"}]_vars

\* A tie settlement has sent both refunds, of different amounts.
C8_Witness ==
  \E q \in Procs :
    /\ proc[q].op = "processGamePayout" /\ proc[q].pc = "st_wrefund"
    /\ proc[q].tx1 # NoTx /\ proc[q].tx2 # NoTx
    /\ transfers[proc[q].tx1].amount # transfers[proc[q].tx2].amount
    /\ games[proc[q].gameId].status = "finished"

\* C9: in a settlement with a winner the transfer sent is to the winner, for
\* the sum of both recorded deposits, it is the only one of the run, and the
\* run then records paid_out with that transfer's signature.
C9_WinnerPaidWholePot ==
  [][\A q \in Procs :
       proc[q].op = "processGamePayout" =>
         LET game == games[proc[q].gameId]
             escrow == games'[proc[q].gameId].escrow
         IN /\ game.winner # Null /\ Sends =>
                 /\ proc[q].pc = "st_pay"
                 /\ Sent.to = game.winner
                 /\ Sent.amount = game.escrow.player1Deposit.amount
                                  + game.escrow.player2Deposit.amount
                 /\ proc'[q].pc = "st_wpaid"
                 /\ proc'[q].tx1 = Len(transfers')
            /\ proc[q].pc = "st_wpaid" =>
                 /\ ~Sends
                 /\ escrow.status = "paid_out"
                 /\ escrow.payoutTx = proc[q].tx1
                 /\ transfers[escrow.payoutTx].to = game.winner]_vars

\* A settlement with a winner has recorded paid_out with its transfer.
C9_Witness ==
  /\ last.op = "processGamePayout" /\ last.error = "paid_out"
  /\ games["g1"].escrow.status = "paid_out"
  /\ games["g1"].escrow.payoutTx # NoTx
  /\ transfers[games["g1"].escrow.payoutTx].to = games["g1"].winner
  /\ transfers[games["g1"].escrow.payoutTx].amount = 1999

----------------------------------------------------------------------------
(* SpecSettle: settlement runs of one finished game whose escrow is locked,
   overlapping.  The status-change event may be delivered more than once. *)

\* The game room after both deposits were verified, both players were ready
\* and the game was played to its end: p2sig is player 2's deposit, winner
\* the stored winner (Null on equal scores), forfeitedBy who gave up if any.
FinishedLockedGame(p2sig, winner, forfeitedBy) ==
  [NewGame("A", "B", 10000, Letters) EXCEPT
     !.status = "finished", !.winner = winner, !.forfeitedBy = forfeitedBy,
     !.player1.isReady = TRUE, !.player2.isReady = TRUE,
     !.escrow.status = "locked",
     !.escrow.player1Deposit = [txSignature |-> "s1", amount |-> Chain["s1"].delta],
     !.escrow.player2Deposit = [txSignature |-> p2sig, amount |-> Chain[p2sig].delta]]

InitSettle ==
  /\ \E p2sig \in {"s2", "s3"},
        end \in {<<Null, Null>>, <<"A", "B">>, <<"B", "A">>} :
       /\ games = [g \in GameIds |-> IF g = "g1"
                                     THEN FinishedLockedGame(p2sig, end[1], end[2])
                                     ELSE NoGame]
       /\ usedSignatures = [s \in Sigs |->
            IF s = "s1" THEN [gameRoomId |-> "g1", playerId |-> "A"]
            ELSE IF s = p2sig THEN [gameRoomId |-> "g1", playerId |-> "B"]
            ELSE NoUse]
  /\ transfers = <<>>
  /\ proc = [q \in Procs |-> Idle]
  /\ pending = {[gameId |-> "g1", before |-> "playing", after |-> "finished"]}
  /\ delivered = {}
  /\ redeliveries = 0
  /\ last = NoResult

NextSettle ==
  \E q \in Procs :
    \/ \E e \in pending : ST_Deliver(q, e)
    \/ \E e \in delivered : ST_Redeliver(q, e)
    \/ ST_Refund1(q)
    \/ ST_Refund1Fails(q)
    \/ ST_Refund2(q)
    \/ ST_Refund2Fails(q)
    \/ ST_WriteRefunded(q)
    \/ ST_Pay(q)
    \/ ST_PayFails(q)
    \/ ST_WritePaid(q)
    \/ ST_WriteError(q)

SpecSettle == InitSettle /\ [][NextSettle]_vars

\* The transfers of one kind sent so far.
TransfersOfKind(kind) == {i \in 1..Len(transfers) : transfers[i].kind = kind}

\* C4: whatever the interleaving of two settlement runs of the same finished,
\* locked game, the pot goes out at most once: at most one payout to the
\* winner, at most one refund to each player.
C4_SettledAtMostOnce ==
  \A kind \in {"payout", "refund1", "refund2"} : Cardinality(TransfersOfKind(kind)) <= 1

----------------------------------------------------------------------------
(* SpecDeposit: deposits into two game rooms that share player A, the
   verifyDeposit invocations overlapping. *)

NextDeposit ==
  \E q \in Procs :
    \/ \E g \in GameIds, p \in Players, sig \in {"s1", "s2"} :
         VD_Start(q, g, p, sig, "SOL", 0)
    \/ VD_CheckSig(q)
    \/ VD_GetTx(q)
    \/ VD_TxNotFound(q)
    \/ VD_Mark(q)
    \/ VD_SetDeposit(q)
    \/ VD_ReadEscrow(q)
    \/ VD_SetStatus(q)

InitDeposit ==
  /\ games = [g \in GameIds |-> IF g = "g1" THEN NewGame("A", "B", 10000, Letters)
                                           ELSE NewGame("A", "C", 10000, Letters)]
  /\ InitRest

SpecDeposit == InitDeposit /\ [][NextDeposit]_vars

\* C5: a verifyDeposit call that arrives when its signature is already in
\* usedSignatures returns a rejection and writes nothing: no deposit, no
\* status, no signature record, whatever game and player it names.
C5_UsedSignatureRejected ==
  [][\A q \in Procs :
       proc[q].op = "verifyDeposit" /\ proc[q].usedAtStart =>
         \/ proc'[q] = proc[q]
         \/ /\ proc'[q] = Idle
            /\ last'.op = "verifyDeposit" /\ ~last'.ok
            /\ games' = games /\ usedSignatures' = usedSignatures]_vars

\* A call carrying s1 has just been rejected as a replay, s1 being player
\* A's recorded deposit in g1.
C5_Witness ==
  /\ last.op = "verifyDeposit"
  /\ last.error = "Transaction has already been used for a deposit"
  /\ games["g1"].escrow.player1Deposit.txSignature = "s1"
  /\ usedSignatures["s1"] # NoUse

\* The deposit slots a signature is recorded in.
CreditedSlots(sig) ==
  {gk \in GameIds \X {"player1Deposit", "player2Deposit"} :
     Exists(gk[1]) /\ games[gk[1]].escrow[gk[2]].txSignature = sig}

\* C6: whatever the interleaving of verifyDeposit calls, a transaction
\* signature is credited to at most one (game, player) pair.
C6_SignatureCreditedOnce ==
  \A sig \in DOMAIN Chain : Cardinality(CreditedSlots(sig)) <= 1

----------------------------------------------------------------------------
(* SpecVerify: verifyDeposit calls on one game room, one at a time, with
   every kind of input: unknown game, stranger, wrong currency, any
   signature, any expectedAmount; store and chain calls may throw. *)

NextVerify ==
  \E q \in Procs :
    \/ /\ AllIdle
       /\ \E g \in GameIds, p \in Players, sig \in Sigs, cur \in Currencies,
             exp \in ExpectedAmounts :
            VD_Start(q, g, p, sig, cur, exp)
    \/ VD_CheckSig(q)
    \/ VD_GetTx(q)
    \/ VD_TxNotFound(q)
    \/ VD_Mark(q)
    \/ VD_SetDeposit(q)
    \/ VD_ReadEscrow(q)
    \/ VD_SetStatus(q)
    \/ VD_Throw(q)

SpecVerify == InitOneGame(BetAmounts) /\ [][NextVerify]_vars

\* The bound of the claim: 1000 * d >= 999 * round(betAmount * 10^9).
MeetsBet(d, bet) == 1000 * d >= 999 * ((bet + 5) \div 10)

\* C10: the amount required comes from the game's betAmount only.  A call
\* whose transaction brings the escrow less than the bound is rejected when
\* the transaction is examined, as insufficient if sender and escrow account
\* are right, and records nothing, whatever expectedAmount it carries; and
\* every deposit on record meets the bound of its game.
C10_RequiredFromBetAmount ==
  [][/\ \A q \in Procs :
          /\ proc[q].op = "verifyDeposit" /\ proc[q].pc = "vd_tx"
          /\ proc[q].txSignature \in DOMAIN Chain
          /\ ~MeetsBet(Chain[proc[q].txSignature].delta, games[proc[q].gameId].betAmount)
          => /\ proc'[q] = Idle /\ ~last'.ok
             /\ games' = games /\ usedSignatures' = usedSignatures
             /\ ( /\ last'.error \notin {"Transaction not found on Solana", "exception"}
                  /\ Chain[proc[q].txSignature].feePayer = proc[q].playerId
                  /\ Chain[proc[q].txSignature].hasEscrow
                  => last'.error = "Insufficient deposit" )
     /\ \A g \in GameIds : Exists(g) =>
          \A k \in {"player1Deposit", "player2Deposit"} :
            HasDeposit(games'[g].escrow[k]) =>
              MeetsBet(games'[g].escrow[k].amount, games'[g].betAmount)]_vars

\* A call with a small expectedAmount and a transaction below the bound has
\* been rejected as insufficient, in a game that already holds a deposit.
\* Player B's deposit is on record, and a call by player A that claims an
\* expectedAmount below the bet is about to have its transaction examined:
\* the transaction brings less than the bet requires, and more than claimed.
C10_Witness ==
  \E q \in Procs :
    /\ proc[q].op = "verifyDeposit" /\ proc[q].pc = "vd_tx"
    /\ proc[q].txSignature \in DOMAIN Chain
    /\ Chain[proc[q].txSignature].feePayer = proc[q].playerId
    /\ Chain[proc[q].txSignature].hasEscrow
    /\ ~MeetsBet(Chain[proc[q].txSignature].delta, games[proc[q].gameId].betAmount)
    /\ MeetsBet(Chain[proc[q].txSignature].delta, proc[q].expectedAmount)
    /\ HasDeposit(games["g1"].escrow.player2Deposit)

----------------------------------------------------------------------------
(* SpecWords: word submissions into one game room being played, the
   submitWord invocations overlapping. *)

\* The game room once both deposits are verified and both players are ready.
PlayingGame ==
  [NewGame("A", "B", 10000, Letters) EXCEPT
     !.status = "playing",
     !.player1.isReady = TRUE, !.player2.isReady = TRUE,
     !.escrow.status = "locked",
     !.escrow.player1Deposit = [txSignature |-> "s1", amount |-> Chain["s1"].delta],
     !.escrow.player2Deposit = [txSignature |-> "s2", amount |-> Chain["s2"].delta]]

InitWords ==
  /\ games = [g \in GameIds |-> IF g = "g1" THEN PlayingGame ELSE NoGame]
  /\ usedSignatures = [s \in Sigs |->
       IF s = "s1" THEN [gameRoomId |-> "g1", playerId |-> "A"]
       ELSE IF s = "s2" THEN [gameRoomId |-> "g1", playerId |-> "B"]
       ELSE NoUse]
  /\ transfers = <<>>
  /\ proc = [q \in Procs |-> Idle]
  /\ pending = {[gameId |-> "g1", before |-> "waiting", after |-> "playing"]}
  /\ delivered = {}
  /\ redeliveries = 0
  /\ last = NoResult

\* Words a client may submit: as typed, in lower case, with spaces around,
\* not formable (one S in the pool), too short, not in the dictionary.
RawWords ==
  {<<"T", "E", "S", "T">>, <<"t", "e", "s", "t">>, <<" ", "S", "E", "T", " ">>,
   <<"T", "A", "S", "T", "E">>, <<"T", "E", "S", "T", "S">>, <<"A", "T">>,
   <<"T", "A", "E">>}

NextWords ==
  \E q \in Procs :
    \/ \E g \in GameIds, p \in Players, word \in RawWords : SW_Start(q, g, p, word)
    \/ SW_Transaction(q)

SpecWords == InitWords /\ [][NextWords]_vars

\* The number of places of seq that hold x.
Occurrences(seq, x) == Cardinality({i \in 1..Len(seq) : seq[i] = x})

\* Points by word length, as the scoring table gives them.
RECURSIVE ScoreOfWords(_)
ScoreOfWords(seq) ==
  IF seq = <<>> THEN 0
  ELSE (CASE Len(Head(seq)) = 3 -> 3 [] Len(Head(seq)) = 4 -> 5
          [] Len(Head(seq)) = 5 -> 8 [] OTHER -> 0) + ScoreOfWords(Tail(seq))

\* C7: however submissions of the same valid word by one player are
\* sequenced or interleaved, the word is in wordsFound once and its score is
\* in the stored score once: after every step no word occurs twice, the score
\* is the sum over wordsFound, and a submission that goes through its
\* transaction leaves its word in wordsFound.
C7_WordCreditedOnce ==
  [][/\ \A k \in {"player1", "player2"} :
          LET player == games'["g1"][k]
          IN /\ \A i \in 1..Len(player.wordsFound) :
                  Occurrences(player.wordsFound, player.wordsFound[i]) = 1
             /\ player.score = ScoreOfWords(player.wordsFound)
     /\ \A q \in Procs :
          proc[q].op = "submitWord" /\ proc'[q] = Idle =>
            /\ Occurrences(games'["g1"][proc[q].playerKey].wordsFound, proc[q].word) = 1
            /\ games'["g1"][proc[q].playerKey].score
                 = games["g1"][proc[q].playerKey].score
                   + (IF Includes(games["g1"][proc[q].playerKey].wordsFound, proc[q].word)
                      THEN 0 ELSE proc[q].score)]_vars

\* Two submissions of the same word by the same player both passed the
\* duplicate check; the first has been credited, the second is about to run
\* its transaction.
C7_Witness ==
  \E q \in Procs :
    /\ proc[q].op = "submitWord" /\ proc[q].pc = "sw_txn"
    /\ Includes(games["g1"][proc[q].playerKey].wordsFound, proc[q].word)
    /\ games["g1"][proc[q].playerKey].score = calculateScore(proc[q].word)

----------------------------------------------------------------------------
(* Further properties of verifyDeposit, one call at a time (SpecVerify) *)

SenderMismatch == "Transaction sender does not match claimed player"

\* The player whose slot k is.
SlotPlayer(game, k) == IF k = "player1Deposit" THEN game.player1.odid ELSE game.player2.odid

\* C11: a call whose transaction was paid by another account than the
\* claimed playerId is rejected when the transaction is examined, with the
\* sender mismatch once the transaction is found, and writes nothing; and
\* every deposit on record was paid by the player whose slot holds it.
C11_SenderMustBeClaimedPlayer ==
  [][/\ \A q \in Procs :
          /\ proc[q].op = "verifyDeposit" /\ proc[q].pc = "vd_tx"
          /\ proc[q].txSignature \in DOMAIN Chain
          /\ Chain[proc[q].txSignature].feePayer # proc[q].playerId
          => /\ proc'[q] = Idle /\ ~last'.ok
             /\ games' = games /\ usedSignatures' = usedSignatures
             /\ last'.error \in {SenderMismatch, "Transaction not found on Solana", "exception"}
     /\ \A g \in GameIds : Exists(g) =>
          \A k \in {"player1Deposit", "player2Deposit"} :
            HasDeposit(games'[g].escrow[k]) =>
              Chain[games'[g].escrow[k].txSignature].feePayer = SlotPlayer(games'[g], k)]_vars

\* Player B's call carrying a transaction paid by A has just been rejected
\* with the sender mismatch; B's own deposit is on record, A's slot is empty.
C11_Witness ==
  /\ last.op = "verifyDeposit" /\ last.error = SenderMismatch
  /\ HasDeposit(games["g1"].escrow.player2Deposit)
  /\ ~HasDeposit(games["g1"].escrow.player1Deposit)

----------------------------------------------------------------------------
(* SpecStatus: the life of one game room.  Deposits, ready, end of game,
   forfeit (client and server) and cancel, one invocation at a time, in any
   order and any number of times. *)

StatusCalls(q) ==
  \/ \E p \in {"A", "B"}, sig \in {"s1", "s2"} : VD_Start(q, "g1", p, sig, "SOL", 0)
  \/ \E p \in {"A", "B"} : SR_Start(q, "g1", p)
  \/ EG_Start(q, "g1")
  \/ \E p \in {"A", "B"} : FG_Start(q, "g1", p)
  \/ \E p \in {"A", "B"} : PF_Start(q, "g1", p)
  \/ \E p \in {"A", "B"} : CM_Start(q, "g1", p)

StatusSteps(q) ==
  \/ VD_CheckSig(q)
  \/ VD_GetTx(q)
  \/ VD_TxNotFound(q)
  \/ VD_Mark(q)
  \/ VD_SetDeposit(q)
  \/ VD_ReadEscrow(q)
  \/ VD_SetStatus(q)
  \/ SR_Set(q)
  \/ SR_Read(q)
  \/ SR_Write(q)
  \/ EG_Write(q)
  \/ FG_Write(q)
  \/ PF_Write(q)
  \/ CM_Send(q)
  \/ CM_SendFails(q)
  \/ CM_Write(q)

NextStatus == \E q \in Procs : (AllIdle /\ StatusCalls(q)) \/ StatusSteps(q)

SpecStatus == InitOneGame({10000}) /\ [][NextStatus]_vars

\* The step is the arrival of a cancelMatchmaking call.
StartsCancel ==
  /\ AllIdle
  /\ \/ \E q \in Procs : proc'[q].op = "cancelMatchmaking"
     \/ last'.op = "cancelMatchmaking"

\* C12: a cancelMatchmaking call that finds the game playing or finished
\* returns "Cannot cancel - game in progress" at once: it sends no transfer
\* and leaves the game record, its status and its escrow unchanged.
C12_CancelRejectedInProgress ==
  [][StartsCancel /\ games["g1"].status \in {"playing", "finished"} =>
       /\ \A q \in Procs : proc'[q] = Idle
       /\ ~last'.ok /\ last'.error = "Cannot cancel - game in progress"
       /\ games' = games /\ transfers' = transfers]_vars

\* A cancel has just been rejected on a game that is being played with both
\* deposits locked.
C12_Witness ==
  /\ last.op = "cancelMatchmaking" /\ last.error = "Cannot cancel - game in progress"
  /\ games["g1"].status = "playing"
  /\ games["g1"].escrow.status = "locked"

----------------------------------------------------------------------------
(* SpecCancel: deposits into and cancels of one game room still waiting, one
   invocation at a time; the room's bet is the usual one or none at all. *)

\* Bets of the rooms: none recorded (0), and 10000 tenths of a lamport.
CancelBets == {0, 10000}

NextCancel ==
  \E q \in Procs :
    \/ /\ AllIdle
       /\ \/ \E p \in {"A", "B"}, sig \in {"s1", "s2", "s3"} :
               VD_Start(q, "g1", p, sig, "SOL", 0)
          \/ \E p \in {"A", "B"} : CM_Start(q, "g1", p)
    \/ VD_CheckSig(q)
    \/ VD_GetTx(q)
    \/ VD_TxNotFound(q)
    \/ VD_Mark(q)
    \/ VD_SetDeposit(q)
    \/ VD_ReadEscrow(q)
    \/ VD_SetStatus(q)
    \/ CM_Send(q)
    \/ CM_SendFails(q)
    \/ CM_Write(q)

SpecCancel == InitOneGame(CancelBets) /\ [][NextCancel]_vars

\* The amount of the deposit a cancel by p refunds: p's own, or the other
\* player's when p has none.
RefundedDeposit(game, p) ==
  LET own == IF game.player1.odid = p THEN game.escrow.player1Deposit
             ELSE game.escrow.player2Deposit
      other == IF game.player1.odid = p THEN game.escrow.player2Deposit
               ELSE game.escrow.player1Deposit
  IN IF own.txSignature # Null /\ own.amount # 0 THEN own.amount ELSE other.amount

----------------------------------------------------------------------------
(* SpecForm: word submissions by one player, one at a time, into rooms with
   different letter pools. *)

MaxPoolLen == 3
MaxWordLen == 3

\* Sequences over S of length 0..n.
SeqsUpTo(S, n) == UNION {[1..k -> S] : k \in 0..n}

\* Letter pools of the rooms: the pool T,E,S,T,A and every pool of up to
\* MaxPoolLen letters out of T, E, S.
Pools == {Letters} \cup SeqsUpTo({"T", "E", "S"}, MaxPoolLen)

\* Words the formability check is asked about.
FormWords ==
  SeqsUpTo({"T", "E", "S", "t"}, MaxWordLen)
    \cup {<<"T", "E", "S", "T", "S">>, <<"T", "A", "S", "T", "E">>}

InitForm ==
  /\ \E pool \in Pools :
       games = [g \in GameIds |-> IF g = "g1" THEN [PlayingGame EXCEPT !.letters = pool]
                                             ELSE NoGame]
  /\ usedSignatures = [s \in Sigs |->
       IF s = "s1" THEN [gameRoomId |-> "g1", playerId |-> "A"]
       ELSE IF s = "s2" THEN [gameRoomId |-> "g1", playerId |-> "B"]
       ELSE NoUse]
  /\ transfers = <<>>
  /\ proc = [q \in Procs |-> Idle]
  /\ pending = {[gameId |-> "g1", before |-> "waiting", after |-> "playing"]}
  /\ delivered = {}
  /\ redeliveries = 0
  /\ last = NoResult

NextForm ==
  \E q \in Procs :
    \/ AllIdle /\ \E word \in RawWords : SW_Start(q, "g1", "A", word)
    \/ SW_Transaction(q)

SpecForm == InitForm /\ [][NextForm]_vars

\* The letters of word, in upper case, are a sub-multiset of pool.
SubMultiset(word, pool) ==
  \A c \in {"T", "E", "S", "A"} :
    Cardinality({i \in 1..Len(word) : UpperChar(word[i]) = c})
      <= Cardinality({i \in 1..Len(pool) : pool[i] = c})

\* C14: canFormWord(word, letters) is true exactly when every letter of the
\* word occurs in the word at most as many times as in the pool; with pool
\* T,E,S,T,A the word TEST is formable and TESTS is not; and a submission
\* leaves the pool of the game as it was.
C14_CanFormIffSubMultiset ==
  [][/\ games'["g1"].letters = games["g1"].letters
     /\ \A word \in FormWords :
          canFormWord(word, games'["g1"].letters) <=> SubMultiset(word, games'["g1"].letters)
     /\ canFormWord(<<"T", "E", "S", "T">>, Letters)
     /\ ~canFormWord(<<"T", "E", "S", "T", "S">>, Letters)]_vars

\* In the room with pool T,E,S,T,A the word TEST has been accepted and
\* credited, and TESTS has just been rejected as not formable.
C14_Witness ==
  /\ games["g1"].letters = Letters
  /\ Includes(games["g1"].player1.wordsFound, <<"T", "E", "S", "T">>)
  /\ last.op = "submitWord"
  /\ last.error = "Word cannot be formed from available letters"

----------------------------------------------------------------------------
(* Properties of the game status (SpecStatus) *)

\* The moves of the game status that go forward.
StatusMove(a, b) ==
  \/ a = b
  \/ a = "waiting" /\ b \in {"playing", "finished", "cancelled"}
  \/ a = "playing" /\ b = "finished"

\* C15: across any sequence of setPlayerReady, endGame, forfeitGame,
\* processForfeit and cancelMatchmaking calls the game status only moves
\* forward, waiting -> playing -> finished or waiting -> cancelled; it never
\* moves backward and never leaves cancelled or finished.
C15_GameStatusMonotonic ==
  [][\A g \in GameIds : Exists(g) => StatusMove(games[g].status, games'[g].status)]_vars

----------------------------------------------------------------------------
(* Frame of a failed verifyDeposit (SpecVerify) *)

\* C16: when a verifyDeposit call returns a non-success result, a rejection
\* or an error surfaced by its catch block, the call has consumed no
\* signature and written no deposit: its signature is in usedSignatures only
\* if it was there when the call arrived, no deposit slot holds it unless it
\* was used before, and escrow.status is what the call found.
C16_FailedDepositWritesNothing ==
  [][\A q \in Procs :
       proc[q].op = "verifyDeposit" /\ proc'[q] = Idle /\ ~last'.ok =>
         LET sig == proc[q].txSignature
             escrow == games'[proc[q].gameId].escrow
         IN /\ usedSignatures'[sig] # NoUse => proc[q].usedAtStart
            /\ \A k \in {"player1Deposit", "player2Deposit"} :
                 escrow[k].txSignature = sig => proc[q].usedAtStart
            /\ escrow.status = proc[q].escAtStart]_vars

----------------------------------------------------------------------------
(* Concurrent deposits of the two players of a game (SpecDeposit) *)

\* C17: whatever the interleaving of the two players' verifyDeposit calls,
\* once the calls have returned and both deposits are on record, escrow.status
\* is locked.
C17_BothDepositsEndLocked ==
  \A g \in GameIds :
    /\ AllIdle
    /\ HasDeposit(games[g].escrow.player1Deposit)
    /\ HasDeposit(games[g].escrow.player2Deposit)
    => games[g].escrow.status = "locked"

----------------------------------------------------------------------------
(* Failures of transfers in a settlement (Spec) *)

C19_FailedSettlementStaysLocked ==
  [][\A q \in Procs :
       proc[q].op = "processGamePayout" /\ proc'[q] = Idle
       /\ proc[q].tx1 = NoTx /\ proc[q].tx2 = NoTx =>
         LET escrow == games'[proc[q].gameId].escrow
         IN /\ escrow.status = "locked"
            /\ escrow.payoutError = TRUE]_vars

----------------------------------------------------------------------------
(* Order of transfers and terminal write in one execution (Spec) *)

\* C20: in every settlement and cancel execution the terminal escrow status
\* is written after the execution's transfer attempts and once: the step that
\* writes paid_out or refunded sends nothing and ends the execution, and an
\* execution that began on an escrow not yet settled never sends a transfer
\* while the escrow is marked paid_out or refunded.
C20_TerminalWriteAfterTransfers ==
  [][\A q \in Procs :
       proc[q].op \in {"processGamePayout", "cancelMatchmaking"}
       /\ proc'[q] # proc[q] =>
         LET before == games[proc[q].gameId].escrow
             after == games'[proc[q].gameId].escrow
         IN /\ after.status \in Terminal /\ after # before =>
                 /\ ~Sends
                 /\ proc'[q] = Idle
                 /\ proc[q].pc \in {"st_wrefund", "st_wpaid", "cm_write"}
            /\ Sends => after = before
            /\ Sends /\ proc[q].escAtStart \notin Terminal =>
                 before.status \notin Terminal]_vars

\* A cancel has sent its refund and then, as its last step, recorded
\* refunded with the refund's signature.
C20_Witness ==
  /\ last.op = "cancelMatchmaking" /\ last.ok
  /\ games["g1"].escrow.status = "refunded"
  /\ games["g1"].escrow.refundTx # NoTx
  /\ transfers[games["g1"].escrow.refundTx].kind = "cancel"
  /\ AllIdle

----------------------------------------------------------------------------
(* SpecLive: a game being played with its escrow locked comes to its end, by
   endGame or by a forfeit, and the trigger settles it.  Invocations overlap;
   the custodial transfers succeed.  The platform runs the trigger for every
   status change and every invocation runs to its end. *)

InitLive ==
  /\ \E p2sig \in {"s2", "s3"}, lead \in {0, 5} :
       /\ games = [g \in GameIds |->
            IF g = "g1"
            THEN [PlayingGame EXCEPT
                    !.escrow.player2Deposit =
                       [txSignature |-> p2sig, amount |-> Chain[p2sig].delta],
                    !.player1.score = lead,
                    !.player1.wordsFound =
                       IF lead = 0 THEN <<>> ELSE << <<"T", "E", "S", "T">> >>]
            ELSE NoGame]
       /\ usedSignatures = [s \in Sigs |->
            IF s = "s1" THEN [gameRoomId |-> "g1", playerId |-> "A"]
            ELSE IF s = p2sig THEN [gameRoomId |-> "g1", playerId |-> "B"]
            ELSE NoUse]
  /\ transfers = <<>>
  /\ proc = [q \in Procs |-> Idle]
  /\ pending = {[gameId |-> "g1", before |-> "waiting", after |-> "playing"]}
  /\ delivered = {}
  /\ redeliveries = 0
  /\ last = NoResult

\* Arrivals of the calls that end a game.
FinishCalls(q) ==
  \/ EG_Start(q, "g1")
  \/ \E p \in {"A", "B"} : PF_Start(q, "g1", p)
  \/ \E p \in {"A", "B"} : FG_Start(q, "g1", p)

\* Their writes.
FinishSteps(q) ==
  \/ EG_Write(q)
  \/ PF_Write(q)
  \/ FG_Write(q)

\* The trigger fires for a pending status change.
Delivery(q) == \E e \in pending : ST_Deliver(q, e)

\* The steps of a settlement run whose transfers succeed.
SettleSteps(q) ==
  \/ ST_Refund1(q)
  \/ ST_Refund2(q)
  \/ ST_WriteRefunded(q)
  \/ ST_Pay(q)
  \/ ST_WritePaid(q)

NextLive ==
  \E q \in Procs : FinishCalls(q) \/ FinishSteps(q) \/ Delivery(q) \/ SettleSteps(q)

SpecLive ==
  /\ InitLive
  /\ [][NextLive]_vars
  /\ WF_vars(\E q \in Procs : FinishSteps(q))
  /\ SF_vars(\E q \in Procs : Delivery(q))
  /\ WF_vars(\E q \in Procs : SettleSteps(q))

\* C21: when the game is finished with its escrow locked and the transfers
\* succeed, the settlement runs and the escrow becomes paid_out or refunded;
\* paid_out is written by a run that found a winner, refunded by one that
\* found none.
C21_FinishedLockedIsSettled ==
  /\ (games["g1"].status = "finished" /\ games["g1"].escrow.status = "locked")
       ~> (games["g1"].escrow.status \in {"paid_out", "refunded"})
  /\ [][\A q \in Procs :
          proc[q].op = "processGamePayout" /\ proc'[q] = Idle =>
            /\ games'["g1"].escrow.status = "paid_out" => proc[q].winner # Null
            /\ games'["g1"].escrow.status = "refunded" => proc[q].winner = Null]_vars

\* The game ended in a tie and the trigger has refunded both players.
C21_Witness ==
  /\ games["g1"].status = "finished" /\ games["g1"].winner = Null
  /\ games["g1"].escrow.status = "refunded"
  /\ games["g1"].escrow.player1RefundTx # NoTx
  /\ games["g1"].escrow.player2RefundTx # NoTx
  /\ delivered = {[gameId |-> "g1", before |-> "waiting", after |-> "playing"],
                  [gameId |-> "g1", before |-> "playing", after |-> "finished"]}

----------------------------------------------------------------------------
(* SpecPlay: word submissions over the life of a game room, one invocation at
   a time: the room is waiting with player A's deposit verified, or being
   played, and is ended, forfeited or cancelled between submissions. *)

\* The room still waiting, player A's deposit verified.
WaitingGame ==
  [NewGame("A", "B", 10000, Letters) EXCEPT
     !.escrow.player1Deposit = [txSignature |-> "s1", amount |-> Chain["s1"].delta]]

InitPlay ==
  /\ \E room \in {"waiting", "playing"} :
       /\ games = [g \in GameIds |->
            IF g # "g1" THEN NoGame
            ELSE IF room = "waiting" THEN WaitingGame ELSE PlayingGame]
       /\ usedSignatures = [s \in Sigs |->
            IF s = "s1" THEN [gameRoomId |-> "g1", playerId |-> "A"]
            ELSE IF s = "s2" /\ room = "playing" THEN [gameRoomId |-> "g1", playerId |-> "B"]
            ELSE NoUse]
       /\ pending = IF room = "waiting" THEN {}
                    ELSE {[gameId |-> "g1", before |-> "waiting", after |-> "playing"]}
  /\ transfers = <<>>
  /\ proc = [q \in Procs |-> Idle]
  /\ delivered = {}
  /\ redeliveries = 0
  /\ last = NoResult

\* Words submitted in SpecPlay.
PlayWords == {<<"T", "E", "S", "T">>, <<"s", "e", "t">>, <<"T", "A", "E">>}

NextPlay ==
  \E q \in Procs :
    \/ /\ AllIdle
       /\ \/ \E p \in {"A", "B"}, word \in PlayWords : SW_Start(q, "g1", p, word)
          \/ EG_Start(q, "g1")
          \/ \E p \in {"A", "B"} : PF_Start(q, "g1", p)
          \/ \E p \in {"A", "B"} : CM_Start(q, "g1", p)
    \/ SW_Transaction(q)
    \/ EG_Write(q)
    \/ PF_Write(q)
    \/ CM_Send(q)
    \/ CM_SendFails(q)
    \/ CM_Write(q)

SpecPlay == InitPlay /\ [][NextPlay]_vars

\* The step is the arrival of a submitWord call.
StartsSubmit ==
  /\ AllIdle
  /\ \/ \E q \in Procs : proc'[q].op = "submitWord"
     \/ last'.op = "submitWord"

\* C22: a submitWord call that finds the game waiting, finished or cancelled
\* is rejected at once and changes nothing: neither player's score nor
\* wordsFound, whatever the word.
C22_SubmitRejectedUnlessPlaying ==
  [][StartsSubmit /\ games["g1"].status # "playing" =>
       /\ \A q \in Procs : proc'[q] = Idle
       /\ ~last'.ok /\ last'.error = "Game is not in progress"
       /\ games' = games]_vars

\* A submission has just been rejected on a finished game in which a word
\* was credited while it was played.
C22_Witness ==
  /\ last.op = "submitWord" /\ last.error = "Game is not in progress"
  /\ games["g1"].status = "finished"
  /\ games["g1"].player1.wordsFound # <<>>

----------------------------------------------------------------------------
(* The client's scoring (practice mode of the game screen), and SpecScore:
   server submissions and practice submissions, one at a time. *)

\* scoreTable of the client's calculateScore.
clientScoreTable == [n \in 3..8 |-> <<3, 5, 8, 12, 17, 23>>[n - 2]]

\* The client's score, were words above 8 letters to earn no more than 8.
clientScoreNoBonus(word) ==
  IF Len(word) < 3 THEN 0
  ELSE IF Len(word) > 8 THEN 23
  ELSE clientScoreTable[Len(word)]

\* calculateScore of the client (utils/gameLogic.ts).
clientCalculateScore(word) ==
  LET length == Len(word)
  IN IF length < 3 THEN 0
     ELSE IF length > 8 THEN 23 + (length - 8) * 6
     ELSE IF length \in DOMAIN clientScoreTable THEN clientScoreTable[length] ELSE 0

\* Practice mode: handleSubmit checks the word on the client and scores it.
\* used: the word is among the words already submitted in this session;
\* isValid: the client's dictionary holds it.
PR_Submit(q, word, used, isValid) ==
  /\ Free(q)
  /\ IF Len(word) < 3 THEN Return(q, "practice", FALSE, "Need 3+ letters")
     ELSE IF used THEN Return(q, "practice", FALSE, "Already used!")
     ELSE IF ~isValid THEN Return(q, "practice", FALSE, "Not a word")
     ELSE Goto(q, [Idle EXCEPT !.op = "practice", !.pc = "pr_feedback",
                               !.word = word, !.score = clientCalculateScore(word)])
  /\ UNCHANGED <<games, usedSignatures, transfers, pending, delivered, redeliveries>>

\* Practice mode: the word and its score are added to the local totals.
PR_Feedback(q) ==
  /\ proc[q].op = "practice" /\ proc[q].pc = "pr_feedback"
  /\ Return(q, "practice", TRUE, Null)
  /\ UNCHANGED <<games, usedSignatures, transfers, pending, delivered, redeliveries>>

MaxScoreLen == 10

\* The word of n letters T.
WordOfLen(n) == [i \in 1..n |-> "T"]

\* Words scored in practice: one of every length up to MaxScoreLen.
ScoreWords == {WordOfLen(n) : n \in 0..MaxScoreLen}

NextScore ==
  \E q \in Procs :
    \/ /\ AllIdle
       /\ \/ \E word \in RawWords : SW_Start(q, "g1", "A", word)
          \/ \E word \in ScoreWords, used, isValid \in BOOLEAN :
               PR_Submit(q, word, used, isValid)
    \/ SW_Transaction(q)
    \/ PR_Feedback(q)

SpecScore == InitWords /\ [][NextScore]_vars

\* The score of a word of n letters, as specified.
TableScore(n) ==
  IF n < 3 THEN 0
  ELSE IF n > 8 THEN 23 + 6 * (n - 8)
  ELSE CASE n = 3 -> 3 [] n = 4 -> 5 [] n = 5 -> 8 [] n = 6 -> 12
         [] n = 7 -> 17 [] n = 8 -> 23

\* C23: the server's and the client's calculateScore agree on every word
\* length: 0 below 3 letters, 3/5/8/12/17/23 for 3..8 letters, and
\* 23 + 6*(n-8) above; and every score a submission computes, on the server
\* or in practice, is that value.
C23_ServerAndClientScoreAgree ==
  [][/\ \A n \in 0..MaxScoreLen :
          /\ calculateScore(WordOfLen(n)) = clientCalculateScore(WordOfLen(n))
          /\ calculateScore(WordOfLen(n)) = TableScore(n)
     /\ \A q \in Procs :
          proc'[q].op \in {"submitWord", "practice"} =>
            proc'[q].score = TableScore(Len(proc'[q].word))]_vars

\* The server has credited TEST with 5 points, and the client is scoring a
\* word of 9 letters with 29.
C23_Witness ==
  /\ Includes(games["g1"].player1.wordsFound, <<"T", "E", "S", "T">>)
  /\ games["g1"].player1.score = 5
  /\ \E q \in Procs :
       /\ proc[q].op = "practice" /\ Len(proc[q].word) = 9 /\ proc[q].score = 29

----------------------------------------------------------------------------
(* Scores and word lists under overlapping submissions (SpecWords) *)

\* seq is an initial part of longer.
IsPrefix(seq, longer) ==
  /\ Len(seq) <= Len(longer)
  /\ \A i \in 1..Len(seq) : longer[i] = seq[i]

\* C24: whatever the sequence or interleaving of submitWord calls, no step
\* lowers a player's score, a player's wordsFound changes only by appending
\* (the words stored before stay, in place), and it never holds a word twice.
C24_ScoreAndWordsOnlyGrow ==
  [][\A g \in GameIds : Exists(g) =>
       \A k \in {"player1", "player2"} :
         /\ games'[g][k].score >= games[g][k].score
         /\ IsPrefix(games[g][k].wordsFound, games'[g][k].wordsFound)
         /\ \A i, j \in 1..Len(games'[g][k].wordsFound) :
              games'[g][k].wordsFound[i] = games'[g][k].wordsFound[j] => i = j]_vars

\* Player 1 has two words stored and their points, while two more submissions of
\* theirs are waiting for their transactions.
C24_Witness ==
  /\ Len(games["g1"].player1.wordsFound) = 2
  /\ games["g1"].player1.score > 0
  /\ \A q \in Procs : proc[q].op = "submitWord" /\ proc[q].playerKey = "player1"

----------------------------------------------------------------------------
(* Forfeits, one call at a time (SpecStatus) *)

\* C25: when one of the two players forfeits a game that is not finished yet,
\* through processForfeit or the client's forfeitGame, one update sets the
\* status to finished, the winner to the other player and forfeitedBy to the
\* player who forfeits, and touches nothing else; the winner it stores is
\* not the player who forfeits.
C25_ForfeitMakesOpponentWinner ==
  [][\A q \in Procs :
       /\ proc[q].op \in {"processForfeit", "forfeitGame"}
       /\ proc'[q] = Idle
       /\ proc[q].playerId \in {"A", "B"}
       /\ games[proc[q].gameId].status # "finished"
       => LET g == proc[q].gameId
              p == proc[q].playerId
              other == IF p = "A" THEN "B" ELSE "A"
          IN /\ games'[g] = [games[g] EXCEPT !.status = "finished", !.winner = other,
                                             !.forfeitedBy = p]
             /\ games'[g].winner # p
             /\ \A h \in GameIds \ {g} : games'[h] = games[h]]_vars

\* Player A has just forfeited through processForfeit a game whose escrow was
\* locked: B is the winner.
C25_Witness ==
  /\ last.op = "processForfeit" /\ last.ok
  /\ games["g1"].status = "finished"
  /\ games["g1"].winner = "B" /\ games["g1"].forfeitedBy = "A"
  /\ games["g1"].escrow.status = "locked"

----------------------------------------------------------------------------
(* SpecEnd: endGame overlapping with word submissions of a playing game *)

\* Words the two players submit while the game is ending.
EndWords == {<<"T", "E", "S", "T">>, <<"S", "E", "T">>}

NextEnd ==
  \E q \in Procs :
    \/ \E p \in {"A", "B"}, word \in EndWords : SW_Start(q, "g1", p, word)
    \/ SW_Transaction(q)
    \/ EG_Start(q, "g1")
    \/ EG_Write(q)

SpecEnd == InitWords /\ [][NextEnd]_vars

\* C26: whenever a game is finished with forfeitedBy unset and no call is
\* under way, the stored winner is what the comparison of the stored scores
\* gives: the player with the strictly higher score, and unset exactly when
\* the scores are equal.
C26_WinnerMatchesStoredScores ==
  \A g \in GameIds :
    Exists(g) /\ games[g].status = "finished" /\ games[g].forfeitedBy = Null /\ AllIdle
    => /\ games[g].player1.score > games[g].player2.score
            => games[g].winner = games[g].player1.odid
       /\ games[g].player2.score > games[g].player1.score
            => games[g].winner = games[g].player2.odid
       /\ games[g].player1.score = games[g].player2.score <=> games[g].winner = Null

----------------------------------------------------------------------------
(* Successful cancels (SpecStatus) *)

\* C27: a cancelMatchmaking call that returns success on an existing game
\* whose status is waiting leaves the game cancelled, its escrow refunded,
\* and the signature of the refund transfer in escrow.refundTx.
C27_SuccessfulCancelIsRecorded ==
  [][/\ last'.op = "cancelMatchmaking" /\ last'.ok
     /\ games["g1"].status = "waiting"
     => /\ games'["g1"].status = "cancelled"
        /\ games'["g1"].escrow.status = "refunded"
        /\ games'["g1"].escrow.refundTx \in 1..Len(transfers)
        /\ transfers[games'["g1"].escrow.refundTx].kind = "cancel"]_vars

----------------------------------------------------------------------------
(* Settlement of a game whose escrow is not locked (Spec) *)

\* C28: a settlement run for a finished game whose escrow.status is not
\* locked (pending_deposits, paid_out or refunded) stops at once: it sends no
\* transfer and leaves the whole game record, the escrow included, as it was.
C28_SettlementNeedsLockedEscrow ==
  [][/\ StartsSettlement
     /\ games["g1"].status = "finished"
     /\ games["g1"].escrow.status # "locked"
     => /\ last'.op = "processGamePayout" /\ ~last'.ok
        /\ \A q \in Procs : proc'[q] = Idle
        /\ transfers' = transfers
        /\ games' = games]_vars

\* A settlement run has just skipped a game that was forfeited with one
\* deposit verified: finished, escrow still pending_deposits.
C28_Witness ==
  /\ last.op = "processGamePayout"
  /\ last.error = "Escrow not locked, skipping payout"
  /\ games["g1"].status = "finished"
  /\ games["g1"].escrow.status = "pending_deposits"
  /\ HasDeposit(games["g1"].escrow.player1Deposit)
  /\ transfers = <<>>

----------------------------------------------------------------------------
(* What a locked escrow holds (Spec) *)

\* C29: in every state that verifyDeposit, settlement, forfeit, endGame,
\* setPlayerReady and cancel calls lead to, an escrow whose status is locked
\* has both player1Deposit and player2Deposit recorded.
C29_LockedHasBothDeposits ==
  \A g \in GameIds :
    Exists(g) /\ games[g].escrow.status = "locked"
    => /\ HasDeposit(games[g].escrow.player1Deposit)
       /\ HasDeposit(games[g].escrow.player2Deposit)

\* The second verifyDeposit has just returned: the escrow is locked and both
\* slots hold a deposit with its signature.
C29_Witness ==
  /\ last.op = "verifyDeposit" /\ last.ok
  /\ games["g1"].escrow.status = "locked"
  /\ games["g1"].escrow.player1Deposit.txSignature # Null
  /\ games["g1"].escrow.player2Deposit.txSignature # Null

----------------------------------------------------------------------------
(* The order of the checks of verifyDeposit (SpecVerify) *)

\* The first check, in the specified order, that a call fails; "ok" when it
\* fails none.  found: getTransaction returned the transaction (it returns
\* none for a signature that names no transaction).
FirstFailure(g, p, sig, cur, found) ==
  IF games[g].status = "none" THEN "Game not found"
  ELSE IF p # games[g].player1.odid /\ p # games[g].player2.odid
       THEN "Player is not part of this game"
  ELSE IF cur # games[g].betCurrency THEN "Game requires SOL deposits"
  ELSE IF usedSignatures[sig] # NoUse
       THEN "Transaction has already been used for a deposit"
  ELSE IF ~found \/ sig \notin DOMAIN Chain THEN "Transaction not found on Solana"
  ELSE IF Chain[sig].feePayer # p THEN "Transaction sender does not match claimed player"
  ELSE IF ~Chain[sig].hasEscrow THEN "Transaction did not include escrow wallet"
  ELSE IF 1000 * Chain[sig].delta < 999 * ((games[g].betAmount + 5) \div 10)
       THEN "Insufficient deposit"
  ELSE "ok"

\* The errors of the checks made on the game record.
GameErrors ==
  {"Game not found", "Player is not part of this game", "Game requires SOL deposits"}

\* C30: verifyDeposit reports the first check that fails, in the order unknown
\* game, player not in the game, currency, signature already used,
\* transaction not found, sender, escrow account missing, amount
\* insufficient; a call that fails a check goes no further, and a call that
\* goes on to record the deposit has failed none.
C30_ChecksInOrder ==
  [][/\ \A q \in Procs, g \in GameIds, p \in Players, sig \in Sigs,
          cur \in Currencies, exp \in ExpectedAmounts :
          AllIdle /\ VD_Start(q, g, p, sig, cur, exp) =>
            IF FirstFailure(g, p, sig, cur, TRUE) \in GameErrors
            THEN /\ last'.op = "verifyDeposit" /\ ~last'.ok
                 /\ last'.error = FirstFailure(g, p, sig, cur, TRUE)
            ELSE proc'[q].pc = "vd_sig"
     /\ \A q \in Procs :
          proc[q].op = "verifyDeposit" /\ proc[q] # proc'[q] /\ last'.error # "exception" =>
            LET r == proc[q]
                err(found) == FirstFailure(r.gameId, r.playerId, r.txSignature,
                                           r.currency, found)
            IN /\ err(TRUE) \notin GameErrors
               /\ r.pc = "vd_sig" =>
                    IF usedSignatures[r.txSignature] # NoUse
                    THEN proc'[q] = Idle /\ ~last'.ok /\ last'.error = err(TRUE)
                    ELSE proc'[q].pc = "vd_tx"
               /\ r.pc = "vd_tx" =>
                    \E found \in {f \in BOOLEAN : f => r.txSignature \in DOMAIN Chain} :
                      IF err(found) # "ok"
                      THEN proc'[q] = Idle /\ ~last'.ok /\ last'.error = err(found)
                      ELSE proc'[q].pc = "vd_mark"
               /\ r.pc \in {"vd_mark", "vd_dep", "vd_read", "vd_status"} =>
                    err(TRUE) \in {"ok", "Transaction has already been used for a deposit"}]_vars

\* A call with the wrong currency and a signature already used for a
\* recorded deposit has just been rejected for the currency.
C30_Witness ==
  /\ last.op = "verifyDeposit" /\ last.error = "Game requires SOL deposits"
  /\ \E sig \in Sigs : usedSignatures[sig] # NoUse
  /\ HasDeposit(games["g1"].escrow.player1Deposit)

----------------------------------------------------------------------------
(* The filter of the settlement trigger (Spec) *)

\* C31: the settlement trigger goes on only for a status change to finished
\* from another value.  A run delivered for any other change returns at once:
\* it sends no transfer and leaves the game record as it was; and every
\* settlement run that is under way was started by a change to finished from
\* another value.
C31_TriggerOnlyOnChangeToFinished ==
  [][/\ \A q \in Procs, e \in pending \cup delivered :
          /\ ST_Deliver(q, e) \/ ST_Redeliver(q, e)
          /\ ~(e.after = "finished" /\ e.before # "finished")
          => /\ last'.op = "processGamePayout" /\ ~last'.ok
             /\ last'.error = "Not a change to finished"
             /\ proc' = proc
             /\ transfers' = transfers
             /\ games' = games
     /\ \A q \in Procs :
          proc'[q].op = "processGamePayout" =>
            proc'[q].after = "finished" /\ proc'[q].before # "finished"]_vars

\* The trigger has just returned for the change from waiting to cancelled of
\* a game whose deposit was refunded by the cancel.
C31_Witness ==
  /\ last.op = "processGamePayout" /\ last.error = "Not a change to finished"
  /\ games["g1"].status = "cancelled"
  /\ [gameId |-> "g1", before |-> "waiting", after |-> "cancelled"] \in delivered
  /\ Len(transfers) = 1

----------------------------------------------------------------------------
(* SpecReady: the start of a game.  setPlayerReady, verifyDeposit and
   cancelMatchmaking calls for one waiting game overlap; the status trigger
   is delivered for every change of status. *)

InitReady ==
  /\ games = [g \in GameIds |-> IF g = "g1" THEN WaitingGame ELSE NoGame]
  /\ usedSignatures = [s \in Sigs |->
       IF s = "s1" THEN [gameRoomId |-> "g1", playerId |-> "A"] ELSE NoUse]
  /\ transfers = <<>>
  /\ proc = [q \in Procs |-> Idle]
  /\ pending = {}
  /\ delivered = {}
  /\ redeliveries = 0
  /\ last = NoResult

NextReady ==
  \E q \in Procs :
    \/ VD_Start(q, "g1", "B", "s3", "SOL", 0)
    \/ VD_CheckSig(q)
    \/ VD_GetTx(q)
    \/ VD_TxNotFound(q)
    \/ VD_Mark(q)
    \/ VD_SetDeposit(q)
    \/ VD_ReadEscrow(q)
    \/ VD_SetStatus(q)
    \/ \E p \in {"A", "B"} : SR_Start(q, "g1", p)
    \/ SR_Set(q)
    \/ SR_Read(q)
    \/ SR_Write(q)
    \/ \E p \in {"A", "B"} : CM_Start(q, "g1", p)
    \/ CM_Send(q)
    \/ CM_SendFails(q)
    \/ CM_Write(q)
    \/ \E e \in pending : ST_Deliver(q, e)

SpecReady == InitReady /\ [][NextReady]_vars

\* C32: under any interleaving of setPlayerReady with verifyDeposit,
\* cancelMatchmaking and the status trigger, a game enters playing only with
\* both players ready and its escrow locked: never while the escrow is
\* pending_deposits, paid_out or refunded.
C32_PlayingOnlyWithLockedEscrow ==
  [][\A g \in GameIds :
       Exists(g) /\ games[g].status # "playing" /\ games'[g].status = "playing"
       => /\ games'[g].player1.isReady /\ games'[g].player2.isReady
          /\ games'[g].escrow.status = "locked"]_vars

----------------------------------------------------------------------------
(* What a tie settlement records of a failed refund (Spec) *)

\* C33: when a refund transfer of a tie settlement fails while the other is
\* sent, the escrow record that settlement writes holds an error for the
\* failed transfer, not only a null signature in its slot.
C33_FailedRefundIsRecorded ==
  [][\A q \in Procs :
       /\ proc[q].op = "processGamePayout" /\ proc[q].pc = "st_wrefund"
       /\ proc'[q] = Idle
       /\ \/ proc[q].dep1 > 0 /\ proc[q].tx1 = NoTx /\ proc[q].tx2 # NoTx
          \/ proc[q].dep2 > 0 /\ proc[q].tx2 = NoTx /\ proc[q].tx1 # NoTx
       => games'[proc[q].gameId].escrow.payoutError = TRUE]_vars

----------------------------------------------------------------------------
(* The outcome of a finished game (SpecStatus) *)

\* C34: once a game is finished with a winner recorded, no later endGame,
\* forfeitGame or processForfeit call changes its winner or its forfeitedBy.
C34_OutcomeIsFinal ==
  [][\A g \in GameIds :
       Exists(g) /\ games[g].status = "finished" /\ games[g].winner # Null
       => /\ games'[g].winner = games[g].winner
          /\ games'[g].forfeitedBy = games[g].forfeitedBy]_vars

----------------------------------------------------------------------------
(* What leaves the escrow wallet for a game (Spec) *)

RECURSIVE SentForGame(_, _)
\* The sum of the first n transfers that were sent for game g.
SentForGame(g, n) ==
  IF n = 0 THEN 0
  ELSE SentForGame(g, n - 1) + (IF transfers[n].gameId = g THEN transfers[n].amount ELSE 0)

\* C35: whatever the sequence of verifyDeposit, settlement, forfeit, endGame
\* and cancelMatchmaking calls, the transfers sent out of the escrow wallet
\* for a game (payout and refunds together) never add up to more than the
\* deposits recorded for that game.
C35_NeverPaysMoreThanDeposited ==
  \A g \in GameIds :
    Exists(g) =>
      SentForGame(g, Len(transfers))
        <= games[g].escrow.player1Deposit.amount + games[g].escrow.player2Deposit.amount

----------------------------------------------------------------------------
(* Whose deposit a cancel refunds (Spec) *)

\* The cancel transfer sent in this step, if the step sends one.
CancelSent ==
  /\ Len(transfers') = Len(transfers) + 1
  /\ transfers'[Len(transfers')].kind = "cancel"

\* C36: cancelMatchmaking sends a refund only to a caller who is one of the
\* two players of the game, and only out of that player's own recorded
\* deposit: the recipient's own slot holds a deposit and the amount is not
\* more than it.
C36_CancelRefundsOwnDeposit ==
  [][CancelSent =>
       LET sent == transfers'[Len(transfers')]
           game == games[sent.gameId]
           own == IF game.player1.odid = sent.to THEN game.escrow.player1Deposit
                  ELSE game.escrow.player2Deposit
       IN /\ sent.to \in {game.player1.odid, game.player2.odid}
          /\ own.txSignature # Null
          /\ sent.amount <= own.amount]_vars

----------------------------------------------------------------------------
(* SpecReturn: a waiting game that holds deposits is ended, forfeited or
   cancelled.  Invocations overlap; the custodial transfers succeed; the
   platform runs the trigger for every status change, every invocation runs
   to its end, and player A keeps asking for the deposit back. *)

\* The waiting room with both deposits verified: the escrow is locked.
LockedWaitingGame ==
  [WaitingGame EXCEPT
     !.escrow.status = "locked",
     !.escrow.player2Deposit = [txSignature |-> "s2", amount |-> Chain["s2"].delta]]

InitReturn ==
  /\ \E both \in BOOLEAN :
       /\ games = [g \in GameIds |->
            IF g # "g1" THEN NoGame
            ELSE IF both THEN LockedWaitingGame ELSE WaitingGame]
       /\ usedSignatures = [s \in Sigs |->
            IF s = "s1" THEN [gameRoomId |-> "g1", playerId |-> "A"]
            ELSE IF s = "s2" /\ both THEN [gameRoomId |-> "g1", playerId |-> "B"]
            ELSE NoUse]
  /\ transfers = <<>>
  /\ proc = [q \in Procs |-> Idle]
  /\ pending = {}
  /\ delivered = {}
  /\ redeliveries = 0
  /\ last = NoResult

\* Player A asks for a refund.
CancelCall(q) == CM_Start(q, "g1", "A")

\* The steps of a cancel whose transfer succeeds.
CancelSteps(q) == CM_Send(q) \/ CM_Write(q)

NextReturn ==
  \E q \in Procs :
    \/ EG_Start(q, "g1")
    \/ \E p \in {"A", "B"} : PF_Start(q, "g1", p)
    \/ \E p \in {"A", "B"} : FG_Start(q, "g1", p)
    \/ CancelCall(q)
    \/ FinishSteps(q)
    \/ CancelSteps(q)
    \/ Delivery(q)
    \/ SettleSteps(q)

SpecReturn ==
  /\ InitReturn
  /\ [][NextReturn]_vars
  /\ WF_vars(\E q \in Procs : FinishSteps(q))
  /\ WF_vars(\E q \in Procs : CancelSteps(q))
  /\ SF_vars(\E q \in Procs : Delivery(q))
  /\ WF_vars(\E q \in Procs : SettleSteps(q))
  /\ SF_vars(\E q \in Procs : CancelCall(q))

\* The deposits recorded for game g.
Deposited(g) ==
  games[g].escrow.player1Deposit.amount + games[g].escrow.player2Deposit.amount

\* C37: once a game is finished or cancelled, the deposits recorded for it
\* are eventually sent back out of the escrow wallet, to the winner or to
\* their depositors, when transfers succeed; also when the game was ended or
\* forfeited before its escrow was locked.
C37_DepositsAreReturned ==
  (games["g1"].status \in {"finished", "cancelled"})
    ~> (SentForGame("g1", Len(transfers)) >= Deposited("g1"))

----------------------------------------------------------------------------
(* What a successful submission has credited (SpecWords) *)

\* C38: whenever submitWord returns success for a word with score s, its
\* transaction has appended the word to the player's wordsFound and added s
\* to the player's stored score, whatever the interleaving of submissions.
C38_SuccessMeansCredited ==
  [][\A q \in Procs :
       proc[q].op = "submitWord" /\ proc'[q] = Idle
       /\ last'.op = "submitWord" /\ last'.ok
       => LET before == games[proc[q].gameId][proc[q].playerKey]
              after == games'[proc[q].gameId][proc[q].playerKey]
          IN /\ after.wordsFound = Append(before.wordsFound, proc[q].word)
             /\ after.score = before.score + proc[q].score]_vars

----------------------------------------------------------------------------
(* Submissions after the end of the game (SpecEnd) *)

\* C39: once a game is finished no player's stored score or wordsFound
\* changes any more, whatever the interleaving of submitWord with endGame.
C39_NoCreditAfterFinished ==
  [][\A g \in GameIds :
       Exists(g) /\ games[g].status = "finished"
       => /\ games'[g].player1 = games[g].player1
          /\ games'[g].player2 = games[g].player2]_vars

----------------------------------------------------------------------------
(* The stored score and the stored words (SpecWords) *)

RECURSIVE SumOfScores(_)
\* The sum of calculateScore over the words of seq.
SumOfScores(seq) ==
  IF seq = <<>> THEN 0 ELSE calculateScore(Head(seq)) + SumOfScores(Tail(seq))

\* C40: in every state reached through submitWord calls from a new game
\* (scores 0, no words), each player's stored score is the sum of
\* calculateScore over the words in that player's wordsFound.
C40_ScoreIsSumOfWords ==
  \A g \in GameIds :
    Exists(g) =>
      \A k \in {"player1", "player2"} :
        games[g][k].score = SumOfScores(games[g][k].wordsFound)

\* Player A has TEST and SET stored with 8 points, player B has one word.
C40_Witness ==
  /\ Len(games["g1"].player1.wordsFound) = 2
  /\ games["g1"].player1.score = 8
  /\ Len(games["g1"].player2.wordsFound) = 1
  /\ games["g1"].player2.score > 0

====
